---- MODULE Spec2Model ----
(***************************************************************************)
(* tiny-gateway: the request-processing pipeline of ProxyMiddleware        *)
(* (src/app/core/middleware.py) together with the token validation and     *)
(* claim binding of validate_token_and_get_payload                         *)
(* (src/tiny_gateway/core/security.py), the loading of the configuration   *)
(* (config_models.py, api/deps.py), the login endpoint and the life of the *)
(* process and its outbound clients (src/tiny_gateway/main.py).            *)
(*                                                                         *)
(* Python str values are TLA+ strings; TLC evaluates Len, SubSeq and \o on *)
(* them, so the string operations of the code are modelled character by    *)
(* character.                                                              *)
(***************************************************************************)
EXTENDS Integers, Sequences, FiniteSets, TLC

VARIABLES config, reqs, proc

vars == <<config, reqs, proc>>

(***************************************************************************)
(* Bounds of the model.                                                    *)
(***************************************************************************)
\* number of requests in flight at once in SpecConcurrent
NumReq == 2
\* longest roles list a token carries
MaxTokenRoles == 2

(***************************************************************************)
(* Python str operations.                                                  *)
(***************************************************************************)
UpperChars == "ABCDEFGHIJKLMNOPQRSTUVWXYZ"
LowerChars == "abcdefghijklmnopqrstuvwxyz"
DigitChars == "0123456789"

CharAt(s, i) == SubSeq(s, i, i)

HasChar(chars, c) == \E i \in 1..Len(chars) : CharAt(chars, i) = c

\* str.lower() on one character
LowerChar(c) ==
    IF HasChar(UpperChars, c)
    THEN CharAt(LowerChars, CHOOSE i \in 1..Len(UpperChars) : CharAt(UpperChars, i) = c)
    ELSE c

RECURSIVE Lower(_)
Lower(s) == IF s = "" THEN "" ELSE LowerChar(CharAt(s, 1)) \o Lower(SubSeq(s, 2, Len(s)))

\* str.isalnum() on one character
IsAlnum(c) == HasChar(UpperChars, c) \/ HasChar(LowerChars, c) \/ HasChar(DigitChars, c)

\* str.startswith(prefix)
StartsWith(s, prefix) ==
    /\ Len(prefix) <= Len(s)
    /\ SubSeq(s, 1, Len(prefix)) = prefix

\* str.endswith(suffix)
EndsWith(s, suffix) ==
    /\ Len(suffix) <= Len(s)
    /\ SubSeq(s, Len(s) - Len(suffix) + 1, Len(s)) = suffix

\* str.lstrip(chars), str.rstrip(chars), str.strip(chars)
RECURSIVE LStrip(_, _)
LStrip(s, chars) ==
    IF s # "" /\ HasChar(chars, CharAt(s, 1)) THEN LStrip(SubSeq(s, 2, Len(s)), chars) ELSE s

RECURSIVE RStrip(_, _)
RStrip(s, chars) ==
    IF s # "" /\ HasChar(chars, CharAt(s, Len(s))) THEN RStrip(SubSeq(s, 1, Len(s) - 1), chars) ELSE s

Strip(s, chars) == LStrip(RStrip(s, chars), chars)

\* position of the first occurrence of sep in s at or after i, 0 when there is none
RECURSIVE FindFrom(_, _, _)
FindFrom(s, sep, i) ==
    IF i + Len(sep) - 1 > Len(s) THEN 0
    ELSE IF SubSeq(s, i, i + Len(sep) - 1) = sep THEN i
    ELSE FindFrom(s, sep, i + 1)

\* str.split(sep): the pieces between the occurrences of sep, empty ones kept
RECURSIVE SplitOn(_, _)
SplitOn(s, sep) ==
    LET p == FindFrom(s, sep, 1) IN
    IF p = 0 THEN <<s>>
    ELSE <<SubSeq(s, 1, p - 1)>> \o SplitOn(SubSeq(s, p + Len(sep), Len(s)), sep)

\* str.split(): the maximal runs of non-whitespace characters
Whitespace == " \t"

\* position of the first whitespace character of s at or after i, 0 when there is none
RECURSIVE FindWhitespace(_, _)
FindWhitespace(s, i) ==
    IF i > Len(s) THEN 0
    ELSE IF HasChar(Whitespace, CharAt(s, i)) THEN i
    ELSE FindWhitespace(s, i + 1)

RECURSIVE SplitWords(_)
SplitWords(s) ==
    LET t == LStrip(s, Whitespace)
        p == FindWhitespace(t, 1)
    IN  IF t = "" THEN <<>>
        ELSE IF p = 0 THEN <<t>>
        ELSE <<SubSeq(t, 1, p - 1)>> \o SplitWords(SubSeq(t, p, Len(t)))

\* the elements of a list, as a set
SetOf(seq) == {seq[i] : i \in 1..Len(seq)}

\* dict[key] = value
DictSet(d, key, value) ==
    [k \in (DOMAIN d) \cup {key} |-> IF k = key THEN value ELSE d[k]]

\* dict.get(key, default)
DictGet(d, key, default) == IF key \in DOMAIN d THEN d[key] ELSE default

\* dict.pop(key, None), for its effect on the dict
DictPop(d, key) == [k \in (DOMAIN d) \ {key} |-> d[k]]

EmptyDict == [k \in {} |-> ""]

\* the values a list of (name, value) pairs gives a name, in the list's order
ValuesOf(pairs, name) ==
    LET at == SelectSeq(pairs, LAMBDA pair : pair[1] = name)
    IN  [i \in 1..Len(at) |-> at[i][2]]

\* the names of a list of (name, value) pairs
NamesOf(pairs) == {pairs[i][1] : i \in 1..Len(pairs)}

(***************************************************************************)
(* The configuration snapshot (AppConfig).                                 *)
(***************************************************************************)
\* ProxyConfig.resource = None
NoResource == ""

ProxyConfig(endpoint, target, resource, change_origin) ==
    [endpoint |-> endpoint, target |-> target, resource |-> resource,
     change_origin |-> change_origin]

\* the users of the model have the plaintext password "pw-<name>"
User(name, tenant_id, roles) ==
    [name |-> name, password |-> "pw-" \o name, tenant_id |-> tenant_id, roles |-> roles]

Permission(resource, actions) == [resource |-> resource, actions |-> actions]

BroadRoute    == ProxyConfig("/api/v1", "http://broad:8080/", NoResource, TRUE)
SpecificRoute == ProxyConfig("/api/v1/graph", "http://backend", NoResource, FALSE)

\* the proxy lists the model is checked with: both orders of a broad and a
\* more specific route, and the specific route alone
ProxyLists ==
    { <<BroadRoute, SpecificRoute>>,
      <<SpecificRoute, BroadRoute>>,
      <<SpecificRoute>> }

Users ==
    << User("alice", "t1", <<"admin", "user">>),
       User("bob",   "t2", <<"user">>),
       User("carol", "t1", <<>>) >>

RoleNames == {"admin", "user"}

RoleTable ==
    [role \in RoleNames |->
        IF role = "admin"
        THEN <<Permission("*", <<"read", "write", "create", "update", "delete">>)>>
        ELSE <<Permission("graphs", <<"Read">>)>>]

Tenants == <<"t1", "t2">>

Configs ==
    { [tenants |-> Tenants, proxy |-> p, users |-> Users, roles |-> RoleTable] : p \in ProxyLists }

(***************************************************************************)
(* JSON values of a token payload.  Every value is a record of the same    *)
(* shape: a tag, a scalar text, and the items of a list.                   *)
(***************************************************************************)
JStr(s)      == [t |-> "str",  v |-> s,  items |-> <<>>]
JNum(n)      == [t |-> "num",  v |-> n,  items |-> <<>>]
JList(items) == [t |-> "list", v |-> "", items |-> items]
\* the key is not in the payload
JAbsent      == [t |-> "absent", v |-> "", items |-> <<>>]
\* Python None
JNone        == [t |-> "none", v |-> "", items |-> <<>>]

\* payload.get(key, default)
PayloadGet(payload, key, default) ==
    IF payload[key].t = "absent" THEN default ELSE payload[key]

\* Python truth value of a JSON value ("not x" is its negation)
Truthy(x) ==
    CASE x.t = "str"  -> x.v # ""
      [] x.t = "num"  -> x.v # "0"
      [] x.t = "list" -> x.items # <<>>
      [] OTHER        -> FALSE

\* isinstance(x, str), isinstance(x, list)
IsStr(x)  == x.t = "str"
IsList(x) == x.t = "list"

\* a list of str as the list of its texts
Texts(x) == [i \in 1..Len(x.items) |-> x.items[i].v]

\* the JSON list of a list of str
JStrList(seq) == JList([i \in 1..Len(seq) |-> JStr(seq[i])])

(***************************************************************************)
(* Tokens.  A token is either text that does not decode as a JWT, or a     *)
(* payload with the state of its signature and of its exp claim.           *)
(***************************************************************************)
Garbage == [kind |-> "garbage", sig |-> "none", exp |-> "none",
            payload |-> [sub |-> JAbsent, tenant_id |-> JAbsent, roles |-> JAbsent]]

Jwt(sig, exp, sub, tenant_id, roles) ==
    [kind |-> "jwt", sig |-> sig, exp |-> exp,
     payload |-> [sub |-> sub, tenant_id |-> tenant_id, roles |-> roles]]

\* all lists of length at most n over the set S
RECURSIVE SeqsUpTo(_, _)
SeqsUpTo(S, n) ==
    IF n = 0 THEN {<<>>}
    ELSE LET shorter == SeqsUpTo(S, n - 1)
         IN  shorter \cup {Append(q, x) : q \in shorter, x \in S}

\* jose.jwt.decode(token, SECRET_KEY, algorithms=[ALGORITHM]): the payload, or
\* a JWTError for a token that does not decode, a signature made with another
\* key, an exp in the past, or a sub claim that is not a string
JwtDecode(token) ==
    IF \/ token.kind # "jwt"
       \/ token.sig # "valid"
       \/ token.exp = "past"
       \/ token.payload.sub.t \notin {"absent", "str"}
    THEN [ok |-> FALSE, payload |-> Garbage.payload]
    ELSE [ok |-> TRUE, payload |-> token.payload]

\* the compact text of a token, as it travels in the Authorization header:
\* three dot-separated parts, like a JWT (header and payload, then signature)
RECURSIVE JoinTexts(_, _)
JoinTexts(seq, sep) ==
    IF seq = <<>> THEN ""
    ELSE IF Len(seq) = 1 THEN seq[1]
    ELSE seq[1] \o sep \o JoinTexts(Tail(seq), sep)

EncodeScalar(x) ==
    CASE x.t = "str" -> "s" \o x.v
      [] x.t = "num" -> "n" \o x.v
      [] OTHER       -> "-"

EncodeValue(x) ==
    IF x.t = "list"
    THEN "l" \o JoinTexts([i \in 1..Len(x.items) |-> EncodeScalar(x.items[i])], ",")
    ELSE EncodeScalar(x)

Encode(token) ==
    "exp=" \o token.exp \o "." \o
    "sub=" \o EncodeValue(token.payload.sub) \o ";tenant_id=" \o EncodeValue(token.payload.tenant_id)
        \o ";roles=" \o EncodeValue(token.payload.roles) \o "." \o
    token.sig

\* the token a text decodes to: Garbage unless the text has the three parts
DecodeScalar(text) ==
    CASE StartsWith(text, "s") -> JStr(SubSeq(text, 2, Len(text)))
      [] StartsWith(text, "n") -> JNum(SubSeq(text, 2, Len(text)))
      [] OTHER                 -> JAbsent

DecodeValue(text) ==
    IF StartsWith(text, "l")
    THEN LET rest  == SubSeq(text, 2, Len(text))
             parts == IF rest = "" THEN <<>> ELSE SplitOn(rest, ",")
         IN  JList([i \in 1..Len(parts) |-> DecodeScalar(parts[i])])
    ELSE DecodeScalar(text)

TokenOf(text) ==
    LET parts  == SplitOn(text, ".")
        claims == SplitOn(parts[2], ";")
        Value(claim, key) == DecodeValue(SubSeq(claim, Len(key) + 2, Len(claim)))
    IN  IF Len(parts) # 3 THEN Garbage
        ELSE IF ~StartsWith(parts[1], "exp=") \/ Len(claims) # 3 THEN Garbage
        ELSE IF \/ ~StartsWith(claims[1], "sub=")
                \/ ~StartsWith(claims[2], "tenant_id=")
                \/ ~StartsWith(claims[3], "roles=") THEN Garbage
        ELSE Jwt(parts[3], SubSeq(parts[1], 5, Len(parts[1])),
                 Value(claims[1], "sub"), Value(claims[2], "tenant_id"), Value(claims[3], "roles"))

(***************************************************************************)
(* The mappings the code turns into dicts.                                 *)
(***************************************************************************)
\* dict(request.headers): starlette's Headers lists every name it received and
\* reads a name as its first value, so the dict keeps the first value of a name
RequestHeadersDict(raw) == [k \in NamesOf(raw) |-> ValuesOf(raw, k)[1]]

\* dict(response.headers): httpx's Headers reads a name as all of its values
\* joined by ", "
ResponseHeadersDict(raw) == [k \in NamesOf(raw) |-> JoinTexts(ValuesOf(raw, k), ", ")]

(***************************************************************************)
(* src/tiny_gateway/core/security.py                                       *)
(***************************************************************************)
NoUser == [User("", "", <<>>) EXCEPT !.password = ""]

\* get_user: the first configured user of that name, or None
GetUser(username, cfg) ==
    LET hits == {i \in 1..Len(cfg.users) : cfg.users[i].name = username}
    IN  IF hits = {} THEN [found |-> FALSE, user |-> NoUser]
        ELSE [found |-> TRUE,
              user |-> cfg.users[CHOOSE i \in hits : \A j \in hits : i <= j]]

NoPayload == [sub |-> "", roles |-> <<>>, tenant_id |-> ""]

\* credentials_exception, with the line the function logs before raising it
CredentialsException(log) ==
    [ok |-> FALSE, payload |-> NoPayload, log |-> log,
     status_code |-> 401, detail |-> "Could not validate credentials",
     headers |-> [k \in {"WWW-Authenticate"} |-> "Bearer"]]

TokenPayload(sub, roles, tenant_id) ==
    [ok |-> TRUE, payload |-> [sub |-> sub, roles |-> roles, tenant_id |-> tenant_id],
     log |-> "", status_code |-> 0, detail |-> "", headers |-> EmptyDict]

\* the roles check as a subset test
RolesDifferSubset(token_roles, configured_roles) ==
    ~(SetOf(token_roles) \subseteq SetOf(configured_roles))

\* set(token_roles) != set(configured_roles)
RolesDiffer(token_roles, configured_roles) == SetOf(token_roles) # SetOf(configured_roles)

\* tenant_id != user.tenant_id
TenantDiffers(tenant_id, user) == ~IsStr(tenant_id) \/ tenant_id.v # user.tenant_id

\* not isinstance(token_roles, list) or not all(isinstance(role, str) for role in token_roles)
RolesMalformed(token_roles) ==
    \/ ~IsList(token_roles)
    \/ \E i \in 1..Len(token_roles.items) : ~IsStr(token_roles.items[i])

\* the validation returning what the token says, once it has passed the checks
ValidateTokenCopyingClaims(token, cfg) ==
    LET decoded     == JwtDecode(token)
        payload     == decoded.payload
        username    == PayloadGet(payload, "sub", JNone)
        tenant_id   == PayloadGet(payload, "tenant_id", JStr(""))
        token_roles == PayloadGet(payload, "roles", JList(<<>>))
        looked      == GetUser(username.v, cfg)
        user        == looked.user
    IN  IF ~decoded.ok THEN CredentialsException("JWT validation error")
        ELSE IF ~Truthy(username) THEN CredentialsException("JWT token missing 'sub' field")
        ELSE IF ~Truthy(tenant_id) THEN CredentialsException("JWT token missing 'tenant_id' field")
        ELSE IF RolesMalformed(token_roles)
             THEN CredentialsException("JWT token has invalid 'roles' format")
        ELSE IF ~looked.found THEN CredentialsException("User from token not found in configuration")
        ELSE IF TenantDiffers(tenant_id, user) THEN CredentialsException("Token tenant mismatch")
        ELSE IF RolesDiffer(Texts(token_roles), user.roles)
             THEN CredentialsException("Token role mismatch")
        ELSE TokenPayload(username.v, Texts(token_roles), tenant_id.v)

validate_token_and_get_payload(token, cfg) ==
    LET decoded     == JwtDecode(token)
        payload     == decoded.payload
        username    == PayloadGet(payload, "sub", JNone)
        tenant_id   == PayloadGet(payload, "tenant_id", JStr(""))
        token_roles == PayloadGet(payload, "roles", JList(<<>>))
        looked      == GetUser(username.v, cfg)
        user        == looked.user
    IN  IF ~decoded.ok THEN CredentialsException("JWT validation error")
        ELSE IF ~Truthy(username) THEN CredentialsException("JWT token missing 'sub' field")
        ELSE IF ~Truthy(tenant_id) THEN CredentialsException("JWT token missing 'tenant_id' field")
        ELSE IF RolesMalformed(token_roles)
             THEN CredentialsException("JWT token has invalid 'roles' format")
        ELSE IF ~looked.found THEN CredentialsException("User from token not found in configuration")
        ELSE IF TenantDiffers(tenant_id, user) THEN CredentialsException("Token tenant mismatch")
        ELSE IF RolesDiffer(Texts(token_roles), user.roles)
             THEN CredentialsException("Token role mismatch")
        ELSE TokenPayload(user.name, user.roles, user.tenant_id)

(***************************************************************************)
(* src/app/core/middleware.py: ProxyMiddleware                             *)
(***************************************************************************)
NoProxy == ProxyConfig("", "", NoResource, FALSE)

\* METHOD_ACTION_ALIASES
METHOD_ACTION_ALIASES ==
    [m \in {"GET", "HEAD", "OPTIONS", "POST", "PUT", "PATCH", "DELETE"} |->
        CASE m \in {"GET", "HEAD", "OPTIONS"} -> {"read"}
          [] m = "POST"                      -> {"create", "write", "execute"}
          [] m \in {"PUT", "PATCH"}          -> {"update", "write"}
          [] m = "DELETE"                    -> {"delete", "write"}]

\* str.upper(): every lowercase ASCII letter becomes its uppercase letter
RECURSIVE Upper(_)
Upper(s) ==
    IF s = "" THEN ""
    ELSE LET c == CharAt(s, 1)
         IN  (IF HasChar(LowerChars, c)
              THEN CharAt(UpperChars, CHOOSE i \in 1..Len(LowerChars) : CharAt(LowerChars, i) = c)
              ELSE c) \o Upper(SubSeq(s, 2, Len(s)))

\* __init__: self.proxy_routes = {proxy.endpoint: proxy for proxy in config.proxy},
\* as the list of the dict's items in iteration order: a key keeps the place of
\* its first insertion and the value of its last
ProxyRoutes(proxy) ==
    LET firsts == {i \in 1..Len(proxy) : \A j \in 1..(i - 1) : proxy[j].endpoint # proxy[i].endpoint}
        Last(e) == CHOOSE i \in 1..Len(proxy) :
                      /\ proxy[i].endpoint = e
                      /\ \A j \in 1..Len(proxy) : proxy[j].endpoint = e => j <= i
        RECURSIVE Items(_)
        Items(i) ==
            IF i > Len(proxy) THEN <<>>
            ELSE (IF i \in firsts THEN <<proxy[Last(proxy[i].endpoint)]>> ELSE <<>>) \o Items(i + 1)
    IN  Items(1)

\* _find_matching_proxy: the first route, in the dict's order, whose endpoint
\* the path starts with; None when there is none
FindMatchingProxy(path, cfg) ==
    LET routes == ProxyRoutes(cfg.proxy)
        hits   == {i \in 1..Len(routes) : StartsWith(path, routes[i].endpoint)}
    IN  IF hits = {} THEN [found |-> FALSE, proxy |-> NoProxy]
        ELSE [found |-> TRUE, proxy |-> routes[CHOOSE i \in hits : \A j \in hits : i <= j]]

\* validate_token_and_get_payload was not called
NotValidated == [called |-> FALSE, result |-> CredentialsException("")]

\* _authenticate_request passing on the reason validation failed for
AuthenticateRequestLeaky(headers, cfg) ==
    LET auth_header == SplitWords(DictGet(headers, "authorization", ""))
        validated   == validate_token_and_get_payload(TokenOf(auth_header[2]), cfg)
    IN  IF Len(auth_header) # 2 \/ Lower(auth_header[1]) # "bearer"
        THEN [ok |-> FALSE, payload |-> NoPayload, validation |-> NotValidated,
              error |-> "Missing or invalid Authorization header"]
        ELSE IF validated.ok
        THEN [ok |-> TRUE, payload |-> validated.payload,
              validation |-> [called |-> TRUE, result |-> validated], error |-> ""]
        ELSE [ok |-> FALSE, payload |-> NoPayload,
              validation |-> [called |-> TRUE, result |-> validated],
              error |-> validated.log]

\* _authenticate_request taking any header that starts with the Bearer scheme
AuthenticateRequestLoose(headers, cfg) ==
    LET auth_header == SplitWords(DictGet(headers, "authorization", ""))
        validated   == validate_token_and_get_payload(TokenOf(auth_header[2]), cfg)
    IN  IF Len(auth_header) < 2 \/ Lower(auth_header[1]) # "bearer"
        THEN [ok |-> FALSE, payload |-> NoPayload, validation |-> NotValidated,
              error |-> "Missing or invalid Authorization header"]
        ELSE IF validated.ok
        THEN [ok |-> TRUE, payload |-> validated.payload,
              validation |-> [called |-> TRUE, result |-> validated], error |-> ""]
        ELSE [ok |-> FALSE, payload |-> NoPayload,
              validation |-> [called |-> TRUE, result |-> validated],
              error |-> "Invalid or expired token"]

\* _authenticate_request: the bound payload, or the ValueError it raises, with
\* what validate_token_and_get_payload returned or raised when it was called
AuthenticateRequest(headers, cfg) ==
    LET auth_header == SplitWords(DictGet(headers, "authorization", ""))
        validated   == validate_token_and_get_payload(TokenOf(auth_header[2]), cfg)
    IN  IF Len(auth_header) # 2 \/ Lower(auth_header[1]) # "bearer"
        THEN [ok |-> FALSE, payload |-> NoPayload, validation |-> NotValidated,
              error |-> "Missing or invalid Authorization header"]
        ELSE IF validated.ok
        THEN [ok |-> TRUE, payload |-> validated.payload,
              validation |-> [called |-> TRUE, result |-> validated], error |-> ""]
        ELSE [ok |-> FALSE, payload |-> NoPayload,
              validation |-> [called |-> TRUE, result |-> validated],
              error |-> "Invalid or expired token"]

\* _normalize_resource
RECURSIVE KeepResourceChars(_)
KeepResourceChars(s) ==
    IF s = "" THEN ""
    ELSE LET c == CharAt(s, 1)
         IN  (IF IsAlnum(c) \/ c \in {"-", "_"} THEN c ELSE "") \o KeepResourceChars(SubSeq(s, 2, Len(s)))

NormalizeResource(resource) == Strip(KeepResourceChars(Lower(resource)), "-_")

\* _resource_matches tolerating the plural on the permission only
ResourceMatchesOneWay(permission_resource, request_resource) ==
    LET permission == NormalizeResource(permission_resource)
        requested  == NormalizeResource(request_resource)
    IN  IF permission_resource = "*" THEN TRUE
        ELSE IF permission = "" \/ requested = "" THEN FALSE
        ELSE IF permission = requested THEN TRUE
        ELSE IF EndsWith(permission, "s") /\ SubSeq(permission, 1, Len(permission) - 1) = requested
             THEN TRUE
        ELSE FALSE

\* _resource_matches
ResourceMatches(permission_resource, request_resource) ==
    LET permission == NormalizeResource(permission_resource)
        requested  == NormalizeResource(request_resource)
    IN  IF permission_resource = "*" THEN TRUE
        ELSE IF permission = "" \/ requested = "" THEN FALSE
        ELSE IF permission = requested THEN TRUE
        ELSE IF EndsWith(permission, "s") /\ SubSeq(permission, 1, Len(permission) - 1) = requested
             THEN TRUE
        ELSE IF EndsWith(requested, "s") /\ SubSeq(requested, 1, Len(requested) - 1) = permission
             THEN TRUE
        ELSE FALSE

\* _get_proxy_resource always naming the resource after the endpoint
GetProxyResourceOfEndpoint(proxy_config) ==
    LET endpoint_parts == SelectSeq(SplitOn(Strip(proxy_config.endpoint, "/"), "/"),
                                    LAMBDA part : part # "")
    IN  IF endpoint_parts # <<>> THEN endpoint_parts[Len(endpoint_parts)]
        ELSE "resource"

\* _get_proxy_resource
GetProxyResource(proxy_config) ==
    LET endpoint_parts == SelectSeq(SplitOn(Strip(proxy_config.endpoint, "/"), "/"),
                                    LAMBDA part : part # "")
    IN  IF proxy_config.resource # NoResource THEN proxy_config.resource
        ELSE IF endpoint_parts # <<>> THEN endpoint_parts[Len(endpoint_parts)]
        ELSE "resource"

\* _is_authorized_for_proxy looking the method up as it is spelled
IsAuthorizedForProxyExact(roles, method, proxy_config, cfg) ==
    LET required_actions == IF method \in DOMAIN METHOD_ACTION_ALIASES
                            THEN METHOD_ACTION_ALIASES[method]
                            ELSE {"write"}
        resource == GetProxyResource(proxy_config)
        Permissions(role) == IF role \in DOMAIN cfg.roles THEN cfg.roles[role] ELSE <<>>
        Grants(permission) ==
            LET allowed_actions == {Lower(a) : a \in SetOf(permission.actions)}
            IN  /\ ResourceMatches(permission.resource, resource)
                /\ ("*" \in allowed_actions \/ allowed_actions \cap required_actions # {})
    IN  /\ roles # <<>>
        /\ \E i \in 1..Len(roles) :
              \E j \in 1..Len(Permissions(roles[i])) : Grants(Permissions(roles[i])[j])

\* the check made with the first role only
IsAuthorizedForProxyFirstRole(roles, method, proxy_config, cfg) ==
    LET required_actions == IF Upper(method) \in DOMAIN METHOD_ACTION_ALIASES
                            THEN METHOD_ACTION_ALIASES[Upper(method)]
                            ELSE {"write"}
        resource == GetProxyResource(proxy_config)
        Permissions(role) == IF role \in DOMAIN cfg.roles THEN cfg.roles[role] ELSE <<>>
        Grants(permission) ==
            LET allowed_actions == {Lower(a) : a \in SetOf(permission.actions)}
            IN  /\ ResourceMatches(permission.resource, resource)
                /\ ("*" \in allowed_actions \/ allowed_actions \cap required_actions # {})
    IN  /\ roles # <<>>
        /\ \E j \in 1..Len(Permissions(roles[1])) : Grants(Permissions(roles[1])[j])

\* _is_authorized_for_proxy
IsAuthorizedForProxy(roles, method, proxy_config, cfg) ==
    LET required_actions == IF Upper(method) \in DOMAIN METHOD_ACTION_ALIASES
                            THEN METHOD_ACTION_ALIASES[Upper(method)]
                            ELSE {"write"}
        resource == GetProxyResource(proxy_config)
        Permissions(role) == IF role \in DOMAIN cfg.roles THEN cfg.roles[role] ELSE <<>>
        Grants(permission) ==
            LET allowed_actions == {Lower(a) : a \in SetOf(permission.actions)}
            IN  /\ ResourceMatches(permission.resource, resource)
                /\ ("*" \in allowed_actions \/ allowed_actions \cap required_actions # {})
    IN  /\ roles # <<>>
        /\ \E i \in 1..Len(roles) :
              \E j \in 1..Len(Permissions(roles[i])) : Grants(Permissions(roles[i])[j])

\* the target host of _prepare_proxy_headers: target.split('//')[-1].split('/')[0]
TargetHost(target) ==
    LET after == SplitOn(target, "//")
    IN  SplitOn(after[Len(after)], "/")[1]

\* _prepare_proxy_headers
PrepareProxyHeaders(request_headers, proxy_config, tenant_id) ==
    LET hosted == IF proxy_config.change_origin
                  THEN DictSet(request_headers, "host", TargetHost(proxy_config.target))
                  ELSE request_headers
    IN  DictSet(hosted, "X-Tenant-ID", tenant_id)

\* _proxy_request joining the target as it is configured
TargetUrlJoined(proxy_config, path) == proxy_config.target \o path

\* _proxy_request: target_url
TargetUrl(proxy_config, path) == RStrip(proxy_config.target, "/") \o path

(***************************************************************************)
(* ASGI messages and the two ways the middleware answers.                  *)
(***************************************************************************)
ResponseStart(status, headers) ==
    [type |-> "http.response.start", status |-> status, headers |-> headers, body |-> ""]

\* every body message the middleware sends is the last of its response
ResponseBody(body) ==
    [type |-> "http.response.body", status |-> 0, headers |-> EmptyDict, body |-> body,
     more_body |-> FALSE]

\* json.dumps({"detail": message})
DetailJson(message) == "{\"detail\": \"" \o message \o "\"}"

\* an error response whose body message announces more to come
SendErrorResponseOpen(status_code, message) ==
    << ResponseStart(status_code, [k \in {"content-type"} |-> "application/json"]),
       [ResponseBody(DetailJson(message)) EXCEPT !.more_body = TRUE] >>

\* _send_error_response: the messages it sends
SendErrorResponse(status_code, message) ==
    << ResponseStart(status_code, [k \in {"content-type"} |-> "application/json"]),
       ResponseBody(DetailJson(message)) >>

\* _send_proxy_response: the messages it sends
SendProxyResponse(response) ==
    LET response_headers == DictPop(ResponseHeadersDict(response.headers), "content-encoding")
        kept == {k \in DOMAIN response_headers :
                    Lower(k) \notin {"content-length", "connection", "transfer-encoding"}}
    IN  << ResponseStart(response.status_code, [k \in {Lower(h) : h \in kept} |->
                response_headers[CHOOSE h \in kept : Lower(h) = k]]),
           ResponseBody(response.content) >>

\* the except clauses of __call__ without the one for httpx.ConnectError
HandleExceptionUnexpected(exc) ==
    CASE exc.type = "ValueError" -> [pc |-> "rejected", sent |-> SendErrorResponse(401, exc.message)]
      [] OTHER -> [pc |-> "internal_error", sent |-> SendErrorResponse(500, "Internal Server Error")]

\* the except clauses of __call__: the error response an exception becomes
\* and the state the request ends in
HandleException(exc) ==
    CASE exc.type = "ValueError"   -> [pc |-> "rejected", sent |-> SendErrorResponse(401, exc.message)]
      [] exc.type = "ConnectError" ->
            [pc |-> "upstream_unreachable",
             sent |-> SendErrorResponse(502, "Bad Gateway: Unable to connect to the upstream server")]
      [] OTHER -> [pc |-> "internal_error", sent |-> SendErrorResponse(500, "Internal Server Error")]

Exception(type, message) == [type |-> type, message |-> message]

\* nothing was raised
NoException == Exception("", "")

(***************************************************************************)
(* The world outside: what the upstream client and the inbound connection  *)
(* can do to a forwarded request.                                          *)
(***************************************************************************)
NoResponse == [status_code |-> 0, headers |-> <<>>, content |-> ""]

UpstreamResponses ==
    { [status_code |-> 200,
       headers |-> << <<"content-type", "application/json">>, <<"content-length", "2">>,
                      <<"content-encoding", "gzip">> >>,
       content |-> "{}"],
      [status_code |-> 302,
       headers |-> << <<"location", "http://elsewhere/">>, <<"connection", "close">> >>,
       content |-> ""],
      [status_code |-> 404,
       headers |-> << <<"set-cookie", "a=1">>, <<"content-type", "text/plain">>,
                      <<"set-cookie", "b=2">> >>,
       content |-> "missing"],
      [status_code |-> 500,
       headers |-> << <<"transfer-encoding", "chunked">>, <<"x-trace", "abc">> >>,
       content |-> "boom"] }

\* what self.client.request can raise: a refused connection, a timeout, a
\* ValueError subclass (httpx raises UnicodeEncodeError for a header value that
\* is not ASCII), anything else
ClientExceptions ==
    { Exception("ConnectError", "All connection attempts failed"),
      Exception("TimeoutException", "timed out"),
      Exception("ValueError", "'ascii' codec can't encode character"),
      Exception("Exception", "unexpected") }

\* what request.body() raises when the caller goes away while the body is read
ClientDisconnect == Exception("ClientDisconnect", "")

(***************************************************************************)
(* src/tiny_gateway/models/config_models.py: loading the configuration.    *)
(* The dict read from the YAML file and the AppConfig built from it have   *)
(* the same fields.                                                        *)
(***************************************************************************)
\* no configuration has been loaded
NoConfig == [tenants |-> <<>>, proxy |-> <<>>, users |-> <<>>, roles |-> EmptyDict]

\* validate_user_references: the errors it collects, as (user, what is undefined)
ValidateUserReferences(cfg) ==
    LET tenant_ids    == SetOf(cfg.tenants)
        defined_roles == DOMAIN cfg.roles
        users         == SetOf(cfg.users)
    IN  { <<user.name, "undefined tenant_id">> :
            user \in {u \in users : tenant_ids # {} /\ u.tenant_id \notin tenant_ids} }
        \cup
        { <<user.name, "undefined roles">> :
            user \in {u \in users : \E k \in 1..Len(u.roles) : u.roles[k] \notin defined_roles} }

\* AppConfig.from_dict: model_validate, which raises when the validator has
\* collected an error
FromDict(config_dict) ==
    LET errors == ValidateUserReferences(config_dict)
    IN  IF errors = {}
        THEN [ok |-> TRUE, config |-> config_dict, errors |-> errors]
        ELSE [ok |-> FALSE, config |-> NoConfig, errors |-> errors]

(***************************************************************************)
(* src/app/api/deps.py, src/app/api/v1/endpoints/auth.py and the password  *)
(* check of src/tiny_gateway/core/security.py: the login endpoint of the   *)
(* inner application.                                                      *)
(***************************************************************************)
\* AppConfig.from_dict of src/app/models/config_models.py, which get_config
\* uses: the entries are taken over as they are, a role with no permission is
\* left out, no reference is checked
AppFromDict(config_dict) ==
    [config_dict EXCEPT
        !.roles = [role \in {name \in DOMAIN config_dict.roles : config_dict.roles[name] # <<>>} |->
                      config_dict.roles[role]]]

\* get_config(): opens the configuration file and builds an AppConfig from what
\* the file holds at the time of the call
GetConfig(file) == AppFromDict(file)

\* _is_password_hashed
IsPasswordHashed(password) == StartsWith(password, "$2b$") \/ StartsWith(password, "$2a$")

\* get_password_hash; the model's hash of a password is the password behind
\* the bcrypt prefix
GetPasswordHash(password) == "$2b$" \o password

\* verify_password
VerifyPassword(plain_password, hashed_password) ==
    SubSeq(hashed_password, 5, Len(hashed_password)) = plain_password

\* _validate_password
ValidatePassword(password, stored_password) ==
    IF IsPasswordHashed(stored_password)
    THEN VerifyPassword(password, stored_password)
    ELSE password = stored_password

\* authenticate_user: the configured user, or None
AuthenticateUser(username, password, cfg) ==
    LET looked == GetUser(username, cfg)
    IN  IF looked.found /\ ValidatePassword(password, looked.user.password)
        THEN looked
        ELSE [found |-> FALSE, user |-> NoUser]

\* OAuth2PasswordRequestForm: the username and password fields of the body
ParseForm(body) ==
    LET fields == SplitOn(body, "&")
        Field(name) ==
            LET hits == {i \in 1..Len(fields) : StartsWith(fields[i], name \o "=")}
            IN  IF hits = {} THEN ""
                ELSE LET f == fields[CHOOSE i \in hits : \A j \in hits : i <= j]
                     IN  SubSeq(f, Len(name) + 2, Len(f))
    IN  [username |-> Field("username"), password |-> Field("password")]

\* what the inner application answered: nothing yet, or a status with a detail
\* or an access token
Answer(status_code, detail, access_token) ==
    [status_code |-> status_code, detail |-> detail, access_token |-> access_token]

NoAnswer == Answer(0, "", "")

LoginPath == "/api/v1/auth/login"

(***************************************************************************)
(* src/tiny_gateway/main.py and ProxyMiddleware.__init__ / client / close: *)
(* the process, its configuration file and its outbound clients.           *)
(***************************************************************************)
\* httpx.AsyncClient(...): a client, who created it, and how often it was closed
AsyncClient(creator) == [creator |-> creator, closes |-> 0]

\* the login response a caller keeps: the token and the user entry it was
\* issued from
NoToken == [jwt |-> Garbage, user |-> NoUser]

\* a process that has not started: the file on disk and the token a caller
\* still holds
NewProcess(file, token) ==
    [phase |-> "start", file |-> file, embedded |-> FALSE, clients |-> <<>>,
     http_client |-> 0,
     mw |-> [client |-> 0, should_close |-> FALSE, app_has_state |-> FALSE],
     token |-> token]

\* ProxyMiddleware.__init__(app, config, client): client is 0 for None;
\* app_has_state says whether the wrapped application has a state attribute
MiddlewareInit(p, client, app_has_state) ==
    IF client = 0
    THEN [p EXCEPT !.clients = Append(@, AsyncClient("middleware")),
                   !.mw = [client |-> Len(p.clients) + 1, should_close |-> TRUE,
                           app_has_state |-> app_has_state]]
    ELSE [p EXCEPT !.mw = [client |-> client, should_close |-> FALSE,
                           app_has_state |-> app_has_state]]

\* lifespan, up to the yield: the shared client is created and kept in app.state
LifespanStartup(p) ==
    [p EXCEPT !.clients = Append(@, AsyncClient("lifespan")),
              !.http_client = Len(p.clients) + 1,
              !.phase = "running"]

\* lifespan, after the yield: await shared_client.aclose()
LifespanShutdown(p) ==
    [p EXCEPT !.clients[p.http_client].closes = @ + 1, !.phase = "stopped"]

\* the client property: app.state.http_client when the wrapped application has
\* a state with one, the instance's own client otherwise
Client(p) ==
    IF p.mw.app_has_state /\ p.http_client # 0 THEN p.http_client ELSE p.mw.client

\* close(): closes the instance's client when the middleware created it and the
\* wrapped application's state holds no shared one
MiddlewareClose(p) ==
    IF /\ p.mw.should_close
       /\ p.mw.client # 0
       /\ ~(p.mw.app_has_state /\ p.http_client # 0)
    THEN [p EXCEPT !.clients[p.mw.client].closes = @ + 1, !.mw.client = 0]
    ELSE p

\* the process of create_application() once it serves requests: the
\* middleware stack is built, the lifespan has started
Serving(cfg) == LifespanStartup(MiddlewareInit(NewProcess(cfg, NoToken), 0, FALSE))

(***************************************************************************)
(* Requests.                                                               *)
(***************************************************************************)
Terminal == {"passthrough", "rejected", "denied", "relayed", "upstream_unreachable",
             "internal_error"}

NoScope == [type |-> "http", path |-> "", method |-> "", headers |-> <<>>,
            query |-> <<>>, body |-> ""]

IdleRequest ==
    [pc |-> "idle", scope |-> NoScope, proxy_config |-> NoProxy,
     validation |-> NotValidated, token_payload |-> NoPayload, headers |-> EmptyDict,
     body |-> "", upstream |-> <<>>, response |-> NoResponse,
     app_calls |-> 0, app_scope |-> NoScope, raised |-> NoException,
     client |-> 0, app_config |-> NoConfig, app_response |-> NoAnswer,
     sent |-> <<>>, visited |-> <<>>]

\* the request the upstream client is handed
UpstreamRequest(method, url, headers, params, content) ==
    [method |-> method, url |-> url, headers |-> headers, params |-> params,
     content |-> content, follow_redirects |-> FALSE]

\* dict(request.query_params): one value per key, the last one
QueryDict(query) ==
    [k \in {query[i][1] : i \in 1..Len(query)} |->
        query[CHOOSE i \in 1..Len(query) :
                 /\ query[i][1] = k
                 /\ \A j \in 1..Len(query) : query[j][1] = k => j <= i][2]]

\* __call__ authenticating before the route lookup: a request no route matches
\* is refused when its Authorization header is not a valid bearer token
CallAuthenticated(r) ==
    /\ reqs[r].pc = "called"
    /\ LET scope == reqs[r].scope
           found == FindMatchingProxy(scope.path, config)
           auth  == AuthenticateRequest(RequestHeadersDict(scope.headers), config)
       IN  IF scope.type = "http" /\ ~found.found /\ ~auth.ok
           THEN reqs' = [reqs EXCEPT ![r].pc = "rejected",
                                     ![r].visited = Append(@, "rejected"),
                                     ![r].validation = auth.validation,
                                     ![r].sent = @ \o SendErrorResponse(401, auth.error)]
           ELSE IF scope.type # "http" \/ ~found.found
           THEN reqs' = [reqs EXCEPT ![r].pc = "passthrough",
                                     ![r].visited = Append(@, "passthrough"),
                                     ![r].app_calls = @ + 1,
                                     ![r].app_scope = scope]
           ELSE reqs' = [reqs EXCEPT ![r].pc = "matched",
                                     ![r].visited = Append(@, "matched"),
                                     ![r].proxy_config = found.proxy]
    /\ UNCHANGED <<config, proc>>

\* __call__ looking the route up for a scope of any type
CallAnyScope(r) ==
    /\ reqs[r].pc = "called"
    /\ LET scope == reqs[r].scope
           found == FindMatchingProxy(scope.path, config)
       IN  IF ~found.found
           THEN reqs' = [reqs EXCEPT ![r].pc = "passthrough",
                                     ![r].visited = Append(@, "passthrough"),
                                     ![r].app_calls = @ + 1,
                                     ![r].app_scope = scope]
           ELSE reqs' = [reqs EXCEPT ![r].pc = "matched",
                                     ![r].visited = Append(@, "matched"),
                                     ![r].proxy_config = found.proxy]
    /\ UNCHANGED <<config, proc>>

\* __call__ up to the route lookup: a scope that is not HTTP, or a path no
\* route matches, goes to the inner application
Call(r) ==
    /\ reqs[r].pc = "called"
    /\ LET scope == reqs[r].scope
           found == FindMatchingProxy(scope.path, config)
       IN  IF scope.type # "http" \/ ~found.found
           THEN reqs' = [reqs EXCEPT ![r].pc = "passthrough",
                                     ![r].visited = Append(@, "passthrough"),
                                     ![r].app_calls = @ + 1,
                                     ![r].app_scope = scope]
           ELSE reqs' = [reqs EXCEPT ![r].pc = "matched",
                                     ![r].visited = Append(@, "matched"),
                                     ![r].proxy_config = found.proxy]
    /\ UNCHANGED <<config, proc>>

\* token_payload = await self._authenticate_request(dict(request.headers))
Authenticate(r) ==
    /\ reqs[r].pc = "matched"
    /\ LET auth == AuthenticateRequest(RequestHeadersDict(reqs[r].scope.headers), config)
       IN  IF auth.ok
           THEN reqs' = [reqs EXCEPT ![r].pc = "authenticated", ![r].visited = Append(@, "authenticated"),
                                     ![r].validation = auth.validation,
                                     ![r].token_payload = auth.payload]
           ELSE LET handled == HandleException(Exception("ValueError", auth.error))
                IN  reqs' = [reqs EXCEPT ![r].pc = handled.pc, ![r].visited = Append(@, handled.pc),
                                         ![r].validation = auth.validation,
                                         ![r].raised = Exception("ValueError", auth.error),
                                         ![r].sent = @ \o handled.sent]
    /\ UNCHANGED <<config, proc>>

\* the payload kept on the middleware instance, which the requests share:
\* the headers are prepared from the payload of any authenticated request
AuthorizeShared(r) ==
    /\ reqs[r].pc = "authenticated"
    /\ \E o \in DOMAIN reqs :
          /\ reqs[o].validation.result.ok
          /\ LET q == reqs[r]
             IN  IF IsAuthorizedForProxy(q.token_payload.roles, q.scope.method, q.proxy_config, config)
                 THEN reqs' = [reqs EXCEPT ![r].pc = "authorized",
                                  ![r].visited = Append(@, "authorized"),
                                  ![r].headers = PrepareProxyHeaders(RequestHeadersDict(q.scope.headers), q.proxy_config,
                                                     reqs[o].token_payload.tenant_id)]
                 ELSE reqs' = [reqs EXCEPT ![r].pc = "denied",
                                  ![r].visited = Append(@, "denied"),
                                  ![r].sent = @ \o SendErrorResponse(403,
                                      "Insufficient role permissions for proxied resource")]
    /\ UNCHANGED <<config, proc>>

\* the method kept on the middleware instance, which the requests share: the
\* check is made with the method of any request in flight
AuthorizeInFlight(r) ==
    /\ reqs[r].pc = "authenticated"
    /\ \E o \in DOMAIN reqs :
          /\ reqs[o].pc # "idle"
          /\ LET q == reqs[r]
             IN  IF IsAuthorizedForProxy(q.token_payload.roles, reqs[o].scope.method, q.proxy_config, config)
                 THEN reqs' = [reqs EXCEPT ![r].pc = "authorized",
                                  ![r].visited = Append(@, "authorized"),
                                  ![r].headers = PrepareProxyHeaders(RequestHeadersDict(q.scope.headers), q.proxy_config,
                                                     q.token_payload.tenant_id)]
                 ELSE reqs' = [reqs EXCEPT ![r].pc = "denied",
                                  ![r].visited = Append(@, "denied"),
                                  ![r].sent = @ \o SendErrorResponse(403,
                                      "Insufficient role permissions for proxied resource")]
    /\ UNCHANGED <<config, proc>>

\* the RBAC check and, when it allows, _prepare_proxy_headers
Authorize(r) ==
    /\ reqs[r].pc = "authenticated"
    /\ LET q == reqs[r]
       IN  IF IsAuthorizedForProxy(q.token_payload.roles, q.scope.method, q.proxy_config, config)
           THEN reqs' = [reqs EXCEPT ![r].pc = "authorized", ![r].visited = Append(@, "authorized"),
                            ![r].headers = PrepareProxyHeaders(RequestHeadersDict(q.scope.headers), q.proxy_config,
                                                               q.token_payload.tenant_id)]
           ELSE reqs' = [reqs EXCEPT ![r].pc = "denied", ![r].visited = Append(@, "denied"),
                            ![r].sent = @ \o SendErrorResponse(403,
                                "Insufficient role permissions for proxied resource")]
    /\ UNCHANGED <<config, proc>>

\* _proxy_request: body = await request.body()
ReadBody(r) ==
    /\ reqs[r].pc = "authorized"
    /\ \E disconnected \in BOOLEAN :
          IF disconnected
          THEN LET handled == HandleException(ClientDisconnect)
               IN  reqs' = [reqs EXCEPT ![r].pc = handled.pc,
                                        ![r].visited = Append(@, handled.pc),
                                        ![r].raised = ClientDisconnect,
                                        ![r].sent = @ \o handled.sent]
          ELSE reqs' = [reqs EXCEPT ![r].pc = "body_read",
                                    ![r].visited = Append(@, "body_read"),
                                    ![r].body = reqs[r].scope.body]
    /\ UNCHANGED <<config, proc>>

\* _proxy_request: self.client.request(...) is entered
UpstreamSend(r) ==
    /\ reqs[r].pc = "body_read"
    /\ LET q == reqs[r]
       IN  reqs' = [reqs EXCEPT ![r].pc = "awaiting", ![r].visited = Append(@, "awaiting"),
                       ![r].client = Client(proc),
                       ![r].upstream = Append(@,
                           UpstreamRequest(q.scope.method, TargetUrl(q.proxy_config, q.scope.path),
                                           q.headers, QueryDict(q.scope.query), q.body))]
    /\ UNCHANGED <<config, proc>>

\* the upstream call tried once more after a refused connection
UpstreamReturnRetry(r) ==
    /\ reqs[r].pc = "awaiting"
    /\ \/ \E response \in UpstreamResponses :
             reqs' = [reqs EXCEPT ![r].pc = "responded", ![r].visited = Append(@, "responded"),
                                  ![r].response = response]
       \/ /\ Len(reqs[r].upstream) < 2
          /\ reqs' = [reqs EXCEPT ![r].upstream = Append(@, @[1])]
    /\ UNCHANGED <<config, proc>>

\* self.client.request(...) returns a response or raises
UpstreamReturn(r) ==
    /\ reqs[r].pc = "awaiting"
    /\ \/ \E response \in UpstreamResponses :
             reqs' = [reqs EXCEPT ![r].pc = "responded",
                                  ![r].visited = Append(@, "responded"),
                                  ![r].response = response]
       \/ \E exc \in ClientExceptions :
             LET handled == HandleException(exc)
             IN  reqs' = [reqs EXCEPT ![r].pc = handled.pc,
                                      ![r].visited = Append(@, handled.pc),
                                      ![r].raised = exc,
                                      ![r].sent = @ \o handled.sent]
    /\ UNCHANGED <<config, proc>>

\* await self._send_proxy_response(send, response)
Relay(r) ==
    /\ reqs[r].pc = "responded"
    /\ reqs' = [reqs EXCEPT ![r].pc = "relayed",
                            ![r].visited = Append(@, "relayed"),
                            ![r].sent = @ \o SendProxyResponse(reqs[r].response)]
    /\ UNCHANGED <<config, proc>>

(***************************************************************************)
(* The inputs the model is checked with.                                   *)
(***************************************************************************)
\* a login that leaves the tenant out of the token
IssuedTokenNoTenant(user) ==
    Jwt("valid", "future", JStr(user.name), JAbsent, JStrList(user.roles))

\* the token the login endpoint issues for a configured user
IssuedToken(user) ==
    Jwt("valid", "future", JStr(user.name), JStr(user.tenant_id), JStrList(user.roles))

ConfiguredRoleLists == {Users[i].roles : i \in 1..Len(Users)}

\* well-signed, unexpired tokens over every combination of claim values,
\* well-formed or not
ClaimTokens ==
    { Jwt("valid", "future", sub, tenant_id, roles) :
        sub \in {JAbsent, JStr(""), JStr("alice"), JStr("bob"), JStr("carol"), JStr("mallory")},
        tenant_id \in {JAbsent, JStr(""), JStr("t1"), JStr("t2"), JNum("0"), JNum("1")},
        roles \in {JAbsent, JStr("admin"), JNum("1"), JList(<<JNum("1")>>),
                   JList(<<JStr("user"), JNum("1")>>)}
                  \cup {JStrList(q) : q \in SeqsUpTo(RoleNames, MaxTokenRoles)} }

\* tokens that fail before the claims are looked at
BrokenTokens ==
    { Jwt("forged", "future", JStr("alice"), JStr("t1"), JStrList(<<"admin", "user">>)),
      Jwt("valid", "past", JStr("alice"), JStr("t1"), JStrList(<<"admin", "user">>)),
      Jwt("valid", "future", JNum("7"), JStr("t1"), JStrList(<<"admin", "user">>)) }

\* the tokens of the pipeline runs: every subject, tenant and configured role
\* list, and the broken ones
PipelineTokens ==
    { Jwt("valid", "future", sub, JStr(tenant_id), JStrList(roles)) :
        sub \in {JAbsent, JStr("alice"), JStr("bob"), JStr("carol"), JStr("mallory")},
        tenant_id \in {"t1", "t2"},
        roles \in ConfiguredRoleLists }
    \cup BrokenTokens

AliceToken == Encode(IssuedToken(Users[1]))

\* Authorization header values that are not "Bearer <token>"; "" is also
\* what headers.get('authorization', '') reads when the header is absent
MalformedAuthorization ==
    { "", "Bearer", AliceToken, "Bearer " \o AliceToken \o " x", "Basic " \o AliceToken,
      "Token " \o AliceToken, "Bearer" \o AliceToken }

BearerAuthorization ==
    { "Bearer " \o Encode(t) : t \in PipelineTokens }
    \cup { "Bearer not-a-jwt", "Bearer a.b.c", "bearer   " \o AliceToken,
           " BEARER\t" \o AliceToken \o " " }

\* scope["headers"]: the header lines as the server received them, the names
\* in lower case
InboundHeaders(authorization, tenant_header) ==
    << <<"host", "gateway.example">> >>
    \o (IF authorization = "absent" THEN <<>> ELSE << <<"authorization", authorization>> >>)
    \o (IF tenant_header = "" THEN <<>> ELSE << <<"x-tenant-id", tenant_header>> >>)

Scope(type, path, method, headers) ==
    [type |-> type, path |-> path, method |-> method, headers |-> headers,
     query |-> << <<"a", "1">>, <<"b", "2">> >>, body |-> "payload"]

Paths == {"/api/v1/graph/items", "/api/v1/graph", "/api/v1/graphical/items", "/api/v1/other",
          "/health"}

Methods == {"GET", "POST", "delete", "TRACE"}

PipelineScopes ==
    { Scope(type, path, method, InboundHeaders(authorization, tenant_header)) :
        type \in {"http", "websocket", "lifespan"}, path \in Paths, method \in Methods,
        authorization \in {"absent"} \cup MalformedAuthorization \cup BearerAuthorization,
        tenant_header \in {"", "t9"} }

TokenScopes ==
    { Scope("http", "/api/v1/graph/items", "GET", InboundHeaders("Bearer " \o Encode(t), "")) :
        t \in ClaimTokens \cup BrokenTokens }

\* the requests in flight together: the issued token of a user of each tenant
ConcurrentScopes ==
    { Scope("http", "/api/v1/graph/items", "GET",
            InboundHeaders("Bearer " \o Encode(IssuedToken(Users[i])), "")) : i \in {1, 2} }

\* a token for each reason validation can fail for
FailingTokens ==
    { Jwt("forged", "future", JStr("alice"), JStr("t1"), JStrList(<<"admin", "user">>)),
      Jwt("valid", "past", JStr("alice"), JStr("t1"), JStrList(<<"admin", "user">>)),
      Jwt("valid", "future", JStr("alice"), JAbsent, JStrList(<<"admin", "user">>)),
      Jwt("valid", "future", JStr(""), JStr("t1"), JStrList(<<"admin", "user">>)),
      Jwt("valid", "future", JStr("mallory"), JStr("t1"), JStrList(<<"user">>)),
      Jwt("valid", "future", JStr("bob"), JStr("t1"), JStrList(<<"user">>)),
      Jwt("valid", "future", JStr("alice"), JStr("t1"), JStrList(<<"admin">>)) }

\* the two requests compared with each other: a failing token each, or a
\* token that is not one, or an issued one
PairScopes ==
    { Scope("http", "/api/v1/graph/items", "GET", InboundHeaders("Bearer " \o text, "")) :
        text \in {Encode(t) : t \in FailingTokens} \cup {"not-a-jwt", AliceToken} }

\* the inputs of the authorization runs: one route, one user with one role,
\* one permission on that role
AuthzEndpoints == {"/api/v1/graph", "/api/v1/graph/", "/"}

\* resource names as a configuration can spell them; "--" and "!" normalize to
\* the empty name
ResourceNames == {"graph", "graphs", "Graphs", "_graph-", "gr.aph", "graphss", "data", "s", "--", "!"}

AuthzActions ==
    { <<"read">>, <<"READ">>, <<"write">>, <<"Write">>, <<"create">>, <<"execute">>, <<"update">>,
      <<"delete">>, <<"*">>, <<"read", "delete">>, <<"admin">>, <<>> }

AuthzMethods ==
    {"GET", "get", "HEAD", "OPTIONS", "POST", "Post", "PUT", "PATCH", "DELETE", "TRACE", "CONNECT"}

AuthzConfig(endpoint, resource, permission) ==
    [tenants |-> Tenants,
     proxy   |-> <<ProxyConfig(endpoint, "http://backend", resource, FALSE)>>,
     users   |-> Users,
     roles   |-> [role \in {"user"} |-> <<permission>>]]

\* every action list on the route's own resource, and every pair of resource
\* names on a permission that grants read
AuthzConfigs ==
    { AuthzConfig("/api/v1/graph", NoResource, Permission("graph", actions)) :
        actions \in AuthzActions }
    \cup
    { AuthzConfig(endpoint, resource, Permission(permitted, <<"read">>)) :
        endpoint \in AuthzEndpoints,
        resource \in ResourceNames \cup {NoResource},
        permitted \in ResourceNames \cup {"*"} }

\* requests of bob, whose one role is "user", in every method
AuthzScopes ==
    { Scope("http", "/api/v1/graph/items", method,
            InboundHeaders("Bearer " \o Encode(IssuedToken(Users[2])), "")) :
        method \in AuthzMethods }

\* the inputs of the forwarding runs: one route on every target, and the
\* requests of alice, whose role admin is granted every action on "*"
ForwardTargets ==
    {"http://backend", "http://backend/", "http://broad:8080/", "https://svc.internal:8443/base/"}

ForwardConfigs ==
    { [tenants |-> Tenants,
       proxy   |-> <<ProxyConfig("/api/v1/graph", target, NoResource, change_origin)>>,
       users   |-> Users,
       roles   |-> RoleTable] :
        target \in ForwardTargets, change_origin \in BOOLEAN }

\* header lines after the host and the Authorization line: none, a name
\* sent on two lines, a tenant header of the caller's own
ForwardHeaderLines ==
    { <<>>,
      << <<"accept", "text/html">>, <<"x-trace", "1">>, <<"accept", "application/json">> >>,
      << <<"x-tenant-id", "t9">> >> }

\* query strings as their (key, value) pairs: none, distinct keys, a key repeated
ForwardQueries ==
    { <<>>,
      << <<"a", "1">>, <<"b", "2">> >>,
      << <<"a", "1">>, <<"b", "2">>, <<"a", "3">> >> }

ForwardScopes ==
    { [Scope("http", path, method, InboundHeaders("Bearer " \o AliceToken, "") \o lines)
          EXCEPT !.query = query, !.body = body] :
        path \in {"/api/v1/graph", "/api/v1/graph/items"},
        method \in {"GET", "POST", "DELETE"},
        lines \in ForwardHeaderLines,
        query \in ForwardQueries,
        body \in {"", "payload"} }

\* the inputs of the rule runs: role tables with none, one or both of the
\* roles, each with a list of none, one or two permissions
RulePermissionLists ==
    { <<>>,
      <<Permission("graph", <<"read">>)>>,
      <<Permission("data", <<"*">>), Permission("graph", <<"read">>)>>,
      <<Permission("graphs", <<"Delete">>)>>,
      <<Permission("data", <<"*">>)>>,
      <<Permission("*", <<"create">>)>>,
      <<Permission("data", <<"read">>), Permission("graphs", <<"delete", "update">>)>> }

RuleTables ==
    UNION { [names -> RulePermissionLists] : names \in SUBSET RoleNames }

RuleConfigs ==
    { [tenants |-> Tenants, proxy |-> <<SpecificRoute>>, users |-> Users, roles |-> table] :
        table \in RuleTables }

\* every user's issued token, with a reading, a creating and a deleting method
RuleScopes ==
    { Scope("http", "/api/v1/graph/items", method,
            InboundHeaders("Bearer " \o Encode(IssuedToken(Users[i])), "")) :
        i \in 1..Len(Users), method \in {"GET", "POST", "DELETE"} }

\* the requests whose authorization decisions are compared: every user's
\* issued token, with a method its roles allow or do not
DecideScopes ==
    { Scope("http", "/api/v1/graph/items", method,
            InboundHeaders("Bearer " \o Encode(IssuedToken(Users[i])), "")) :
        i \in 1..Len(Users), method \in {"GET", "DELETE"} }

\* the server calls the middleware with a new scope
Accept(r, scope) ==
    /\ reqs[r].pc = "idle"
    /\ reqs' = [reqs EXCEPT ![r] = [IdleRequest EXCEPT !.pc = "called", !.visited = <<"called">>, !.scope = scope]]
    /\ UNCHANGED <<config, proc>>

Arrive(r) == \E scope \in PipelineScopes : Accept(r, scope)

ArriveToken(r) == \E scope \in TokenScopes : Accept(r, scope)

ArriveConcurrent(r) == \E scope \in ConcurrentScopes : Accept(r, scope)

ArrivePair(r) == \E scope \in PairScopes : Accept(r, scope)

ArriveAuthz(r) == \E scope \in AuthzScopes : Accept(r, scope)

ArriveForward(r) == \E scope \in ForwardScopes : Accept(r, scope)

ArriveDecide(r) == \E scope \in DecideScopes : Accept(r, scope)

ArriveRule(r) == \E scope \in RuleScopes : Accept(r, scope)

\* __call__ has returned: the request is over and its locals are gone
Return(r) ==
    /\ reqs[r].pc \in Terminal
    /\ reqs' = [reqs EXCEPT ![r] = IdleRequest]
    /\ UNCHANGED <<config, proc>>

(***************************************************************************)
(* The process: start, serve, stop; the configuration file on disk; the    *)
(* login endpoint behind the middleware.                                   *)
(***************************************************************************)
\* a user whose configured password is a bcrypt hash
HashedUser(name, tenant_id, roles) ==
    [User(name, tenant_id, roles) EXCEPT !.password = GetPasswordHash("pw-" \o name)]

ConfigFile(tenants, users) ==
    [tenants |-> tenants, proxy |-> <<SpecificRoute>>, users |-> users, roles |-> RoleTable]

\* the configuration files of the process runs: a sound one, the only one with
\* carol, who has no roles; the same with alice's roles and bob's tenant
\* changed; with alice's roles in another order and one of them twice; one
\* naming a tenant that is not configured; one naming a role that is not
\* defined; one with no tenants at all
FileSound == ConfigFile(<<"t1", "t2">>,
                 <<User("alice", "t1", <<"admin", "user">>), HashedUser("bob", "t2", <<"user">>),
                   User("carol", "t1", <<>>)>>)
FileChanged == ConfigFile(<<"t1", "t2">>,
                 <<User("alice", "t1", <<"user">>), HashedUser("bob", "t1", <<"user">>)>>)
FileReordered == ConfigFile(<<"t1", "t2">>,
                 <<User("alice", "t1", <<"user", "admin", "user">>), HashedUser("bob", "t2", <<"user">>)>>)
FileUnknownTenant == ConfigFile(<<"t1", "t2">>,
                 <<User("alice", "t9", <<"admin", "user">>), HashedUser("bob", "t2", <<"user">>)>>)
FileUnknownRole == ConfigFile(<<"t1", "t2">>,
                 <<User("alice", "t1", <<"admin", "ghost">>), HashedUser("bob", "t2", <<"user">>)>>)
FileNoTenants == ConfigFile(<<>>,
                 <<User("alice", "t9", <<"admin", "user">>), HashedUser("bob", "t2", <<"user">>)>>)

ConfigFiles ==
    {FileSound, FileChanged, FileReordered, FileUnknownTenant, FileUnknownRole, FileNoTenants}

\* the login forms: each user's password, and a wrong one
LoginForms ==
    { "username=alice&password=pw-alice", "username=bob&password=pw-bob",
      "username=carol&password=pw-carol",
      "username=alice&password=pw-bob", "username=mallory&password=pw-alice" }

\* the requests of a running process: a login, or a request for the route
\* with the token the caller holds, before or after the token's expiry
ProcessScopes(p) ==
    { [Scope("http", LoginPath, "POST", InboundHeaders("absent", "")) EXCEPT !.body = form] :
        form \in LoginForms }
    \cup
    { Scope("http", "/api/v1/graph", "GET", InboundHeaders("Bearer " \o Encode(jwt), "")) :
        jwt \in IF p.token = NoToken THEN {}
                ELSE {p.token.jwt, [p.token.jwt EXCEPT !.exp = "past"]} }

InFlight == {r \in DOMAIN reqs : reqs[r].pc # "idle"}

\* create_application(): the configuration is loaded, or the start fails
CreateApplication ==
    /\ proc.phase = "start"
    /\ LET loaded == FromDict(proc.file)
       IN  /\ config' = loaded.config
           /\ proc' = [proc EXCEPT !.phase = IF loaded.ok THEN "created" ELSE "failed"]
    /\ UNCHANGED reqs

\* the server's first call: the middleware stack is built, ProxyMiddleware
\* with client=None as add_middleware registered it, and the lifespan starts
Startup ==
    /\ proc.phase = "created"
    /\ \E app_has_state \in BOOLEAN :
          proc' = LifespanStartup(MiddlewareInit(proc, 0, app_has_state))
    /\ UNCHANGED <<config, reqs>>

\* the server stops: the lifespan resumes after its yield
Shutdown ==
    /\ proc.phase = "running"
    /\ ~proc.embedded
    /\ InFlight = {}
    /\ proc' = LifespanShutdown(proc)
    /\ UNCHANGED <<config, reqs>>

\* ProxyMiddleware built by an embedding application, as the tests do, with a
\* client of the embedder's or with none
Embed ==
    /\ proc.phase = "start"
    /\ LET loaded == FromDict(proc.file)
       IN  /\ loaded.ok
           /\ config' = loaded.config
           /\ \E supplied, app_has_state \in BOOLEAN :
                 proc' = IF supplied
                         THEN MiddlewareInit([proc EXCEPT !.phase = "running", !.embedded = TRUE,
                                                          !.clients = <<AsyncClient("external")>>],
                                             1, app_has_state)
                         ELSE MiddlewareInit([proc EXCEPT !.phase = "running", !.embedded = TRUE],
                                             0, app_has_state)
    /\ UNCHANGED reqs

\* the embedding application calls close() when it is done
Close ==
    /\ proc.phase = "running"
    /\ proc.embedded
    /\ InFlight = {}
    /\ proc' = [MiddlewareClose(proc) EXCEPT !.phase = "stopped"]
    /\ UNCHANGED <<config, reqs>>

\* the process is started again: nothing of the old one is kept but the file
\* on disk and the tokens its callers hold
Restart ==
    /\ proc.phase \in {"stopped", "failed"}
    /\ proc' = NewProcess(proc.file, proc.token)
    /\ config' = NoConfig
    /\ UNCHANGED reqs

\* an operator rewrites the configuration file
Rewrite ==
    /\ \E file \in ConfigFiles \ {proc.file} : proc' = [proc EXCEPT !.file = file]
    /\ UNCHANGED <<config, reqs>>

ArriveProcess(r) ==
    /\ proc.phase = "running"
    /\ \E scope \in ProcessScopes(proc) : Accept(r, scope)

\* login_for_access_token, in the inner application: get_config(), the
\* password check, and the token made from the user entry
Login(r) ==
    /\ reqs[r].pc = "passthrough"
    /\ ~proc.embedded
    /\ reqs[r].app_response = NoAnswer
    /\ reqs[r].app_scope.type = "http"
    /\ reqs[r].app_scope.method = "POST"
    /\ reqs[r].app_scope.path = LoginPath
    /\ LET form == ParseForm(reqs[r].app_scope.body)
           cfg  == GetConfig(proc.file)
           user == AuthenticateUser(form.username, form.password, cfg)
       IN  IF ~user.found
           THEN /\ reqs' = [reqs EXCEPT ![r].app_config = cfg,
                               ![r].app_response = Answer(401, "Incorrect username or password", "")]
                /\ UNCHANGED proc
           ELSE /\ reqs' = [reqs EXCEPT ![r].app_config = cfg,
                               ![r].app_response = Answer(200, "", Encode(IssuedToken(user.user)))]
                /\ proc' = [proc EXCEPT !.token = [jwt |-> IssuedToken(user.user), user |-> user.user]]
    /\ UNCHANGED config

(***************************************************************************)
(* Specifications.                                                         *)
(***************************************************************************)
\* one request after another, over the whole pipeline input space
Init ==
    /\ config \in Configs
    /\ proc = Serving(config)
    /\ reqs = [r \in {1} |-> IdleRequest]

Next ==
    \/ \E r \in DOMAIN reqs : Arrive(r)
    \/ \E r \in DOMAIN reqs : Call(r)
    \/ \E r \in DOMAIN reqs : Authenticate(r)
    \/ \E r \in DOMAIN reqs : Authorize(r)
    \/ \E r \in DOMAIN reqs : ReadBody(r)
    \/ \E r \in DOMAIN reqs : UpstreamSend(r)
    \/ \E r \in DOMAIN reqs : UpstreamReturn(r)
    \/ \E r \in DOMAIN reqs : Relay(r)
    \/ \E r \in DOMAIN reqs : Return(r)

Spec == Init /\ [][Next]_vars

\* one request after another, over the token space
NextToken ==
    \/ \E r \in DOMAIN reqs : ArriveToken(r)
    \/ \E r \in DOMAIN reqs : Call(r)
    \/ \E r \in DOMAIN reqs : Authenticate(r)
    \/ \E r \in DOMAIN reqs : Authorize(r)
    \/ \E r \in DOMAIN reqs : ReadBody(r)
    \/ \E r \in DOMAIN reqs : UpstreamSend(r)
    \/ \E r \in DOMAIN reqs : UpstreamReturn(r)
    \/ \E r \in DOMAIN reqs : Relay(r)
    \/ \E r \in DOMAIN reqs : Return(r)

SpecToken == Init /\ [][NextToken]_vars

\* NumReq requests in flight, interleaved at every await
InitConcurrent ==
    /\ config \in {c \in Configs : Len(c.proxy) = 1}
    /\ proc = Serving(config)
    /\ reqs = [r \in 1..NumReq |-> IdleRequest]

NextConcurrent ==
    \/ \E r \in DOMAIN reqs : ArriveConcurrent(r)
    \/ \E r \in DOMAIN reqs : Call(r)
    \/ \E r \in DOMAIN reqs : Authenticate(r)
    \/ \E r \in DOMAIN reqs : Authorize(r)
    \/ \E r \in DOMAIN reqs : ReadBody(r)
    \/ \E r \in DOMAIN reqs : UpstreamSend(r)
    \/ \E r \in DOMAIN reqs : UpstreamReturn(r)
    \/ \E r \in DOMAIN reqs : Relay(r)
    \/ \E r \in DOMAIN reqs : Return(r)

SpecConcurrent == InitConcurrent /\ [][NextConcurrent]_vars

\* two requests side by side, to compare what two callers observe
InitPair ==
    /\ config \in {c \in Configs : Len(c.proxy) = 1}
    /\ proc = Serving(config)
    /\ reqs = [r \in {1, 2} |-> IdleRequest]

NextPair ==
    \/ \E r \in DOMAIN reqs : ArrivePair(r)
    \/ \E r \in DOMAIN reqs : Call(r)
    \/ \E r \in DOMAIN reqs : Authenticate(r)
    \/ \E r \in DOMAIN reqs : Authorize(r)
    \/ \E r \in DOMAIN reqs : ReadBody(r)
    \/ \E r \in DOMAIN reqs : UpstreamSend(r)
    \/ \E r \in DOMAIN reqs : UpstreamReturn(r)
    \/ \E r \in DOMAIN reqs : Relay(r)
    \/ \E r \in DOMAIN reqs : Return(r)

SpecPair == InitPair /\ [][NextPair]_vars

\* one request after another, over the permissions, resources and methods
InitAuthz ==
    /\ config \in AuthzConfigs
    /\ proc = Serving(config)
    /\ reqs = [r \in {1} |-> IdleRequest]

NextAuthz ==
    \/ \E r \in DOMAIN reqs : ArriveAuthz(r)
    \/ \E r \in DOMAIN reqs : Call(r)
    \/ \E r \in DOMAIN reqs : Authenticate(r)
    \/ \E r \in DOMAIN reqs : Authorize(r)
    \/ \E r \in DOMAIN reqs : ReadBody(r)
    \/ \E r \in DOMAIN reqs : UpstreamSend(r)
    \/ \E r \in DOMAIN reqs : UpstreamReturn(r)
    \/ \E r \in DOMAIN reqs : Relay(r)
    \/ \E r \in DOMAIN reqs : Return(r)

SpecAuthz == InitAuthz /\ [][NextAuthz]_vars

\* one request after another, over the targets, header lines, queries and bodies
InitForward ==
    /\ config \in ForwardConfigs
    /\ proc = Serving(config)
    /\ reqs = [r \in {1} |-> IdleRequest]

NextForward ==
    \/ \E r \in DOMAIN reqs : ArriveForward(r)
    \/ \E r \in DOMAIN reqs : Call(r)
    \/ \E r \in DOMAIN reqs : Authenticate(r)
    \/ \E r \in DOMAIN reqs : Authorize(r)
    \/ \E r \in DOMAIN reqs : ReadBody(r)
    \/ \E r \in DOMAIN reqs : UpstreamSend(r)
    \/ \E r \in DOMAIN reqs : UpstreamReturn(r)
    \/ \E r \in DOMAIN reqs : Relay(r)
    \/ \E r \in DOMAIN reqs : Return(r)

SpecForward == InitForward /\ [][NextForward]_vars

\* two requests side by side, to compare the decisions made for them
InitDecide ==
    /\ config \in {c \in Configs : Len(c.proxy) = 1}
    /\ proc = Serving(config)
    /\ reqs = [r \in {1, 2} |-> IdleRequest]

NextDecide ==
    \/ \E r \in DOMAIN reqs : ArriveDecide(r)
    \/ \E r \in DOMAIN reqs : Call(r)
    \/ \E r \in DOMAIN reqs : Authenticate(r)
    \/ \E r \in DOMAIN reqs : Authorize(r)
    \/ \E r \in DOMAIN reqs : ReadBody(r)
    \/ \E r \in DOMAIN reqs : UpstreamSend(r)
    \/ \E r \in DOMAIN reqs : UpstreamReturn(r)
    \/ \E r \in DOMAIN reqs : Relay(r)
    \/ \E r \in DOMAIN reqs : Return(r)

SpecDecide == InitDecide /\ [][NextDecide]_vars

\* one request after another, over the role tables
InitRule ==
    /\ config \in RuleConfigs
    /\ proc = Serving(config)
    /\ reqs = [r \in {1} |-> IdleRequest]

NextRule ==
    \/ \E r \in DOMAIN reqs : ArriveRule(r)
    \/ \E r \in DOMAIN reqs : Call(r)
    \/ \E r \in DOMAIN reqs : Authenticate(r)
    \/ \E r \in DOMAIN reqs : Authorize(r)
    \/ \E r \in DOMAIN reqs : ReadBody(r)
    \/ \E r \in DOMAIN reqs : UpstreamSend(r)
    \/ \E r \in DOMAIN reqs : UpstreamReturn(r)
    \/ \E r \in DOMAIN reqs : Relay(r)
    \/ \E r \in DOMAIN reqs : Return(r)

SpecRule == InitRule /\ [][NextRule]_vars

\* a process from its start to its end and again, with logins and requests
InitProcess ==
    /\ config = NoConfig
    /\ proc \in {NewProcess(file, NoToken) : file \in ConfigFiles}
    /\ reqs = [r \in {1} |-> IdleRequest]

NextProcess ==
    \/ CreateApplication
    \/ Startup
    \/ Embed
    \/ Rewrite
    \/ \E r \in DOMAIN reqs : ArriveProcess(r)
    \/ \E r \in DOMAIN reqs : Call(r)
    \/ \E r \in DOMAIN reqs : Login(r)
    \/ \E r \in DOMAIN reqs : Authenticate(r)
    \/ \E r \in DOMAIN reqs : Authorize(r)
    \/ \E r \in DOMAIN reqs : ReadBody(r)
    \/ \E r \in DOMAIN reqs : UpstreamSend(r)
    \/ \E r \in DOMAIN reqs : UpstreamReturn(r)
    \/ \E r \in DOMAIN reqs : Relay(r)
    \/ \E r \in DOMAIN reqs : Return(r)
    \/ Shutdown
    \/ Close
    \/ Restart

SpecProcess == InitProcess /\ [][NextProcess]_vars

(***************************************************************************)
(* Vocabulary of the properties.                                           *)
(***************************************************************************)
Requests == DOMAIN reqs

\* the request has been through that state
Visited(r, pc) == pc \in SetOf(reqs[r].visited)

\* the value of the Authorization header, "absent" when there is none
Authorization(r) == DictGet(RequestHeadersDict(reqs[r].scope.headers), "authorization", "absent")

\* the token of a request whose Authorization header is two words
BearerToken(r) ==
    LET words == SplitWords(Authorization(r))
    IN  IF Len(words) = 2 THEN TokenOf(words[2]) ELSE Garbage

\* the configured user of that name; user names are unique in Users
Configured(name) == {Users[i] : i \in {j \in 1..Len(Users) : Users[j].name = name}}

\* the gateway, not the upstream, produced the response, and its status is 401 or 403
GatewayRefused(r) ==
    /\ reqs[r].pc \in Terminal \ {"relayed", "passthrough"}
    /\ reqs[r].sent # <<>>
    /\ reqs[r].sent[1].status \in {401, 403}

\* the names under which a header set carries the tenant header
TenantHeaderNames(headers) == {k \in DOMAIN headers : Lower(k) = "x-tenant-id"}

(***************************************************************************)
(* C1  Fail closed: the upstream client is invoked only after validation   *)
(* returned a bound identity and the authorization check allowed, and a    *)
(* request the gateway answers with 401 or 403 has made no upstream        *)
(* request.  The code breaks the second half: "except ValueError" also     *)
(* catches a ValueError raised by the upstream call.                       *)
(***************************************************************************)
C1_FailClosed ==
    \A r \in Requests :
        /\ reqs[r].upstream # <<>> =>
              /\ reqs[r].validation.called
              /\ reqs[r].validation.result.ok
              /\ Visited(r, "authorized")
        /\ GatewayRefused(r) => reqs[r].upstream = <<>>

(***************************************************************************)
(* C2  Every forwarded request carries the tenant header exactly once,     *)
(* header names compared without case, with the bound identity's           *)
(* tenant_id; a caller-supplied value never reaches the upstream.  The     *)
(* code adds the key 'X-Tenant-ID' next to the inbound 'x-tenant-id'.      *)
(***************************************************************************)
C2_TenantHeaderOnce ==
    \A r \in Requests :
        \A i \in 1..Len(reqs[r].upstream) :
            LET headers == reqs[r].upstream[i].headers
            IN  /\ Cardinality(TenantHeaderNames(headers)) = 1
                /\ \A k \in TenantHeaderNames(headers) :
                      headers[k] = reqs[r].token_payload.tenant_id

(***************************************************************************)
(* C3  Claim binding: a well-signed, unexpired token naming a configured   *)
(* user and carrying a roles claim is accepted by                          *)
(* validate_token_and_get_payload exactly when its tenant_id equals the    *)
(* user's and its roles, as a set, equal the user's roles; every other     *)
(* such token is rejected with 401.                                        *)
(***************************************************************************)
\* the token's claims are bound to the configured user
ClaimsBound(token, user) ==
    /\ token.payload.tenant_id.t = "str"
    /\ token.payload.tenant_id.v = user.tenant_id
    /\ token.payload.roles.t = "list"
    /\ \A i \in 1..Len(token.payload.roles.items) : token.payload.roles.items[i].t = "str"
    /\ {token.payload.roles.items[i].v : i \in 1..Len(token.payload.roles.items)}
          = SetOf(user.roles)

\* a well-signed, unexpired token whose subject is a text
WellSigned(token) ==
    /\ token.kind = "jwt"
    /\ token.sig = "valid"
    /\ token.exp = "future"
    /\ token.payload.sub.t = "str"

C3_ClaimBinding ==
    \A r \in Requests :
        LET token  == BearerToken(r)
            result == reqs[r].validation.result
        IN  (reqs[r].validation.called /\ WellSigned(token) /\ token.payload.roles.t # "absent") =>
                \A user \in Configured(token.payload.sub.v) :
                    IF ClaimsBound(token, user)
                    THEN /\ result.ok
                         /\ result.payload.tenant_id = user.tenant_id
                         /\ SetOf(result.payload.roles) = SetOf(user.roles)
                    ELSE /\ ~result.ok
                         /\ result.status_code = 401

\* a token with a strict subset of the configured roles has been rejected
C3_Witness ==
    \E r \in Requests :
        LET token == BearerToken(r)
        IN  /\ reqs[r].validation.called
            /\ WellSigned(token)
            /\ token.payload.sub.v = "alice"
            /\ token.payload.tenant_id = JStr("t1")
            /\ token.payload.roles = JStrList(<<"admin">>)
            /\ ~reqs[r].validation.result.ok

(***************************************************************************)
(* C4  No leak of the failing check: two requests to the same route, each  *)
(* with a well-formed Bearer header and a token that fails validation,     *)
(* get the same response - status 401, headers and body - whatever the     *)
(* reason of the failure.                                                  *)
(***************************************************************************)
TokenFailed(r) ==
    /\ reqs[r].pc \in Terminal
    /\ reqs[r].validation.called
    /\ ~reqs[r].validation.result.ok

C4_NoLeak ==
    \A r1, r2 \in Requests :
        (/\ TokenFailed(r1)
         /\ TokenFailed(r2)
         /\ reqs[r1].proxy_config = reqs[r2].proxy_config) =>
            /\ reqs[r1].sent = reqs[r2].sent
            /\ Len(reqs[r1].sent) = 2
            /\ reqs[r1].sent[1].status = 401

\* two requests have been answered whose tokens failed for different reasons
C4_Witness ==
    \E r1, r2 \in Requests :
        /\ TokenFailed(r1)
        /\ TokenFailed(r2)
        /\ reqs[r1].validation.result.log = "Token tenant mismatch"
        /\ reqs[r2].validation.result.log = "Token role mismatch"

(***************************************************************************)
(* C5  A request on a matched route with a valid, bound token whose roles  *)
(* grant the method's action is forwarded exactly once, with the tenant    *)
(* header set to the configured user's tenant_id.  As stated it fails when *)
(* the caller disconnects while the body is read: request.body() raises    *)
(* before the upstream client is invoked and the answer is 500.            *)
(***************************************************************************)
\* the token was valid and bound, and the authorization check allowed
ValidAndGranted(r) ==
    /\ Visited(r, "matched")
    /\ reqs[r].validation.called
    /\ reqs[r].validation.result.ok
    /\ Visited(r, "authorized")

\* the tenant_id the configuration gives the user the request was bound to
ConfiguredTenants(r) == {user.tenant_id : user \in Configured(reqs[r].token_payload.sub)}

TenantHeaderIsConfigured(r) ==
    \A i \in 1..Len(reqs[r].upstream) :
        {DictGet(reqs[r].upstream[i].headers, "X-Tenant-ID", "")} = ConfiguredTenants(r)

\* the claim as stated
C5_ForwardedExactlyOnce ==
    \A r \in Requests :
        (reqs[r].pc \in Terminal /\ ValidAndGranted(r)) =>
            /\ Len(reqs[r].upstream) = 1
            /\ TenantHeaderIsConfigured(r)

\* the claim as amended: at most one upstream request ever, exactly one once
\* the request has ended unless reading the body failed, and none in that case
C5_ForwardedOnceUnlessBodyFails ==
    \A r \in Requests :
        /\ Len(reqs[r].upstream) <= 1
        /\ TenantHeaderIsConfigured(r)
        /\ (reqs[r].pc \in Terminal /\ ValidAndGranted(r)) =>
              IF Visited(r, "body_read")
              THEN Len(reqs[r].upstream) = 1
              ELSE /\ reqs[r].upstream = <<>>
                   /\ reqs[r].pc = "internal_error"

\* a valid, granted request has ended with its response relayed
C5_Witness ==
    \E r \in Requests :
        /\ reqs[r].pc = "relayed"
        /\ ValidAndGranted(r)
        /\ Len(reqs[r].upstream) = 1
        /\ reqs[r].upstream[1].headers["X-Tenant-ID"] = "t2"

(***************************************************************************)
(* C6  On a matched route validation is attempted only for an              *)
(* Authorization header of exactly two words whose first is "bearer" in    *)
(* any case; every other header, and none, is answered 401 with a JSON     *)
(* body {"detail": <message>} and no upstream request.                     *)
(***************************************************************************)
\* the body is the JSON text {"detail": "<message>"}
IsDetailJson(body) ==
    /\ StartsWith(body, "{\"detail\": \"")
    /\ EndsWith(body, "\"}")
    /\ Len(body) > Len("{\"detail\": \"\"}")

C6_MalformedHeaderRejected ==
    \A r \in Requests :
        (Visited(r, "matched") /\ reqs[r].pc # "matched") =>
            /\ reqs[r].validation.called => Authorization(r) \in BearerAuthorization
            /\ Authorization(r) \notin BearerAuthorization =>
                  /\ ~reqs[r].validation.called
                  /\ reqs[r].pc = "rejected"
                  /\ reqs[r].upstream = <<>>
                  /\ Len(reqs[r].sent) = 2
                  /\ reqs[r].sent[1].type = "http.response.start"
                  /\ reqs[r].sent[1].status = 401
                  /\ reqs[r].sent[1].headers = [k \in {"content-type"} |-> "application/json"]
                  /\ reqs[r].sent[2].type = "http.response.body"
                  /\ IsDetailJson(reqs[r].sent[2].body)

\* a header of three words has been answered
C6_Witness ==
    \E r \in Requests :
        /\ Len(SplitWords(Authorization(r))) = 3
        /\ Visited(r, "matched")
        /\ reqs[r].pc = "rejected"
        /\ reqs[r].sent[1].status = 401

(***************************************************************************)
(* C7  A well-signed, unexpired token is rejected with 401 whenever sub or *)
(* tenant_id is missing or empty, or roles is absent, not a list, or a     *)
(* list with an element that is not a string - for every configured user.  *)
(* The code reads an absent roles claim as the empty list and accepts it   *)
(* for a user configured with no roles.                                    *)
(***************************************************************************)
\* a required claim is missing, empty or of the wrong shape
ClaimsMalformed(token) ==
    \/ token.payload.sub.t = "absent"
    \/ token.payload.sub = JStr("")
    \/ token.payload.tenant_id.t = "absent"
    \/ token.payload.tenant_id = JStr("")
    \/ token.payload.roles.t # "list"
    \/ \E i \in 1..Len(token.payload.roles.items) : token.payload.roles.items[i].t # "str"

C7_MalformedClaimsRejected ==
    \A r \in Requests :
        LET token == BearerToken(r)
        IN  (/\ reqs[r].validation.called
             /\ token.kind = "jwt" /\ token.sig = "valid" /\ token.exp = "future"
             /\ ClaimsMalformed(token)) =>
                /\ ~reqs[r].validation.result.ok
                /\ reqs[r].validation.result.status_code = 401

(***************************************************************************)
(* C8  Tenant isolation under concurrency: whatever the interleaving of    *)
(* the requests in flight, every upstream request carries the tenant       *)
(* header of the user bound for that same request.                         *)
(***************************************************************************)
\* the tenant the configuration gives the subject of the request's token
TokenTenants(r) == {user.tenant_id : user \in Configured(BearerToken(r).payload.sub.v)}

C8_TenantIsolation ==
    \A r \in Requests :
        \A i \in 1..Len(reqs[r].upstream) :
            {DictGet(reqs[r].upstream[i].headers, "X-Tenant-ID", "")} = TokenTenants(r)

\* two requests of different tenants are both waiting for the upstream
C8_Witness ==
    \E r1, r2 \in Requests :
        /\ reqs[r1].pc = "awaiting"
        /\ reqs[r2].pc = "awaiting"
        /\ reqs[r1].upstream[1].headers["X-Tenant-ID"] = "t1"
        /\ reqs[r2].upstream[1].headers["X-Tenant-ID"] = "t2"

(***************************************************************************)
(* C9  When several route endpoints are prefixes of the path, the matcher  *)
(* returns the route with the longest endpoint, whatever the order of the  *)
(* routes in the configuration.  The code returns the first in             *)
(* configuration order.                                                    *)
(***************************************************************************)
C9_LongestPrefixWins ==
    \A r \in Requests :
        Visited(r, "matched") =>
            \A i \in 1..Len(config.proxy) :
                StartsWith(reqs[r].scope.path, config.proxy[i].endpoint) =>
                    Len(config.proxy[i].endpoint) <= Len(reqs[r].proxy_config.endpoint)

(***************************************************************************)
(* C10  Route matching respects path-segment boundaries: a path matches an *)
(* endpoint only if it equals it or continues after it with "/"; any other *)
(* path goes to the inner application and makes no upstream request.  The  *)
(* code matches on the raw string prefix.                                  *)
(***************************************************************************)
\* the path equals the endpoint or continues after it with "/"
OnBoundary(path, endpoint) == path = endpoint \/ StartsWith(path, endpoint \o "/")

C10_SegmentBoundary ==
    \A r \in Requests :
        /\ Visited(r, "matched") => OnBoundary(reqs[r].scope.path, reqs[r].proxy_config.endpoint)
        /\ (/\ reqs[r].pc # "called"
            /\ reqs[r].pc # "idle"
            /\ \A i \in 1..Len(config.proxy) :
                  ~OnBoundary(reqs[r].scope.path, config.proxy[i].endpoint)) =>
                /\ reqs[r].pc = "passthrough"
                /\ reqs[r].app_calls = 1
                /\ reqs[r].upstream = <<>>

(***************************************************************************)
(* C11  An HTTP request whose path starts with no configured endpoint is   *)
(* handed to the inner application exactly once, with its scope as it      *)
(* came, and the middleware does nothing else with it: no header parsing,  *)
(* no token validation, no authorization check, no upstream call, no       *)
(* response of its own - whatever token the request carries.               *)
(***************************************************************************)
\* no configured endpoint is a prefix of the path of the request
Unrouted(r) ==
    \A i \in 1..Len(config.proxy) : ~StartsWith(reqs[r].scope.path, config.proxy[i].endpoint)

C11_UnroutedPassesThrough ==
    \A r \in Requests :
        (reqs[r].pc \notin {"idle", "called"} /\ reqs[r].scope.type = "http" /\ Unrouted(r)) =>
            /\ reqs[r].pc = "passthrough"
            /\ reqs[r].visited = <<"called", "passthrough">>
            /\ reqs[r].app_calls = 1
            /\ reqs[r].app_scope = reqs[r].scope
            /\ ~reqs[r].validation.called
            /\ reqs[r].raised = NoException
            /\ reqs[r].token_payload = NoPayload
            /\ reqs[r].upstream = <<>>
            /\ reqs[r].sent = <<>>

\* a request no route matches, carrying a header that is no bearer token, has
\* been handed to the inner application
C11_Witness ==
    \E r \in Requests :
        /\ reqs[r].pc = "passthrough"
        /\ reqs[r].scope.type = "http"
        /\ reqs[r].scope.path = "/health"
        /\ Authorization(r) = "Basic " \o AliceToken
        /\ reqs[r].app_calls = 1

(***************************************************************************)
(* C12  The actions that satisfy a request are a fixed function of its     *)
(* method, compared without case: GET, HEAD, OPTIONS -> read; POST ->      *)
(* create, write, execute; PUT, PATCH -> update, write; DELETE -> delete,  *)
(* write; any other method -> write.  With one permission on the route's   *)
(* resource the request is allowed iff the permission's actions meet that  *)
(* set or contain "*".  As stated it fails for an action the configuration *)
(* spells with capitals: the code lower-cases the permission's actions     *)
(* before it compares them.                                                *)
(***************************************************************************)
\* the table of the claim
SatisfyingActions(method) ==
    CASE Upper(method) \in {"GET", "HEAD", "OPTIONS"} -> {"read"}
      [] Upper(method) = "POST"                        -> {"create", "write", "execute"}
      [] Upper(method) \in {"PUT", "PATCH"}            -> {"update", "write"}
      [] Upper(method) = "DELETE"                      -> {"delete", "write"}
      [] OTHER                                         -> {"write"}

\* the one permission of the one role of the configuration
ThePermission == config.roles["user"][1]

\* the authorization check has been made for the request
Decided(r) == Visited(r, "authorized") \/ Visited(r, "denied")

\* the permission is on the very resource the route is named after
OnRouteResource(r) ==
    /\ reqs[r].proxy_config.resource = NoResource
    /\ ThePermission.resource = "graph"
    /\ reqs[r].proxy_config.endpoint = "/api/v1/graph"

\* the claim as stated: the actions as the configuration spells them
C12_MethodActions ==
    \A r \in Requests :
        (Decided(r) /\ OnRouteResource(r)) =>
            LET actions == SetOf(ThePermission.actions)
            IN  Visited(r, "authorized") <=>
                    (actions \cap SatisfyingActions(reqs[r].scope.method) # {} \/ "*" \in actions)

\* the claim as amended: the actions compared in lower case
C12_MethodActionsLowered ==
    \A r \in Requests :
        (Decided(r) /\ OnRouteResource(r)) =>
            LET actions == {Lower(a) : a \in SetOf(ThePermission.actions)}
            IN  /\ Visited(r, "authorized") <=>
                    (actions \cap SatisfyingActions(reqs[r].scope.method) # {} \/ "*" \in actions)
                /\ Visited(r, "denied") <=> ~Visited(r, "authorized")

\* a method spelled in mixed case has been allowed on its own action, and a
\* method the table does not know on write
C12_Witness ==
    \E r \in Requests :
        /\ OnRouteResource(r)
        /\ Visited(r, "authorized")
        /\ \/ reqs[r].scope.method = "Post" /\ ThePermission.actions = <<"execute">>
           \/ reqs[r].scope.method = "TRACE" /\ ThePermission.actions = <<"write">>

(***************************************************************************)
(* C13  Resource matching is symmetric and tolerates the plural: for names *)
(* other than "*" the match does not depend on which is the permission's   *)
(* and which the request's; two names match when their normalized forms    *)
(* are equal or differ by one trailing "s"; a permission on "*" matches    *)
(* every request resource, also one that normalizes to the empty name.  As *)
(* stated it fails for names that normalize to the empty name: the code    *)
(* matches no such name against anything but "*".                          *)
(***************************************************************************)
\* the resource the route is checked under: its override, or its name
RouteResource(r) == GetProxyResource(reqs[r].proxy_config)

\* the request was a read on a permission that grants read, so that the
\* authorization check has decided on the resource alone
DecidedOnResource(r) ==
    /\ Decided(r)
    /\ Upper(reqs[r].scope.method) = "GET"
    /\ ThePermission.actions = <<"read">>

\* the normalized forms are equal or differ by one trailing "s"
SameButPlural(a, b) ==
    LET na == NormalizeResource(a)
        nb == NormalizeResource(b)
    IN  na = nb \/ na = nb \o "s" \/ nb = na \o "s"

\* neither name normalizes to the empty name
BothNamed(a, b) == NormalizeResource(a) # "" /\ NormalizeResource(b) # ""

\* the claim as stated
C13_ResourceMatching ==
    \A r \in Requests :
        DecidedOnResource(r) =>
            LET p == ThePermission.resource
                q == RouteResource(r)
            IN  /\ (p # "*" /\ q # "*") => ResourceMatches(p, q) = ResourceMatches(q, p)
                /\ (p # "*" /\ SameButPlural(p, q)) => Visited(r, "authorized")
                /\ p = "*" => Visited(r, "authorized")

\* the claim as amended: names that normalize to the empty name match nothing
C13_ResourceMatchingNamed ==
    \A r \in Requests :
        DecidedOnResource(r) =>
            LET p == ThePermission.resource
                q == RouteResource(r)
            IN  /\ (p # "*" /\ q # "*") => ResourceMatches(p, q) = ResourceMatches(q, p)
                /\ p # "*" => (Visited(r, "authorized") <=> (BothNamed(p, q) /\ SameButPlural(p, q)))
                /\ p = "*" => Visited(r, "authorized")

\* a permission on the singular has allowed a request on the plural
C13_Witness ==
    \E r \in Requests :
        /\ DecidedOnResource(r)
        /\ Visited(r, "authorized")
        /\ ThePermission.resource = "graph"
        /\ RouteResource(r) = "Graphs"

(***************************************************************************)
(* C14  The authorization check of a route is made on route.resource when  *)
(* an override is configured, and on the last non-empty "/"-separated      *)
(* segment of the endpoint otherwise; with an override, a permission on    *)
(* the name the endpoint would give, which is not the override's, does not *)
(* authorize: 403 and no upstream request.  An override is configured when *)
(* route.resource is a non-empty name.                                     *)
(***************************************************************************)
\* the text after the last "/" of a text that does not end in "/"
RECURSIVE AfterLastSlash(_)
AfterLastSlash(s) ==
    IF s = "" \/ CharAt(s, Len(s)) = "/" THEN ""
    ELSE AfterLastSlash(SubSeq(s, 1, Len(s) - 1)) \o CharAt(s, Len(s))

\* the last non-empty segment of an endpoint, "" when it has none
LastSegment(endpoint) == AfterLastSlash(RStrip(endpoint, "/"))

\* the permission matches that name, by the rule of the resource comparison
PermissionOn(name) ==
    \/ ThePermission.resource = "*"
    \/ BothNamed(ThePermission.resource, name) /\ SameButPlural(ThePermission.resource, name)

C14_ResourceOfRoute ==
    \A r \in Requests :
        DecidedOnResource(r) =>
            LET route == reqs[r].proxy_config
            IN  /\ route.resource # NoResource =>
                      (Visited(r, "authorized") <=> PermissionOn(route.resource))
                /\ (route.resource = NoResource /\ LastSegment(route.endpoint) # "") =>
                      (Visited(r, "authorized") <=> PermissionOn(LastSegment(route.endpoint)))
                /\ (/\ route.resource # NoResource
                    /\ LastSegment(route.endpoint) # ""
                    /\ PermissionOn(LastSegment(route.endpoint))
                    /\ ~PermissionOn(route.resource)) =>
                      /\ reqs[r].pc = "denied"
                      /\ reqs[r].sent = SendErrorResponse(403,
                                            "Insufficient role permissions for proxied resource")
                      /\ reqs[r].upstream = <<>>

\* on the route /api/v1/graph with the override "data", a permission on
\* "graph" has been refused
C14_Witness ==
    \E r \in Requests :
        /\ DecidedOnResource(r)
        /\ reqs[r].proxy_config.endpoint = "/api/v1/graph"
        /\ reqs[r].proxy_config.resource = "data"
        /\ ThePermission.resource = "graph"
        /\ reqs[r].pc = "denied"
        /\ reqs[r].sent[1].status = 403

(***************************************************************************)
(* C15  The upstream URL of a forwarded request is the route target        *)
(* without its trailing slash, followed by the whole inbound path: the     *)
(* endpoint is never cut off the path, and the targets "http://backend"    *)
(* and "http://backend/" give the same URL for the same path.              *)
(***************************************************************************)
\* the target of the route without the "/" it may end in
TargetBase(target) ==
    IF EndsWith(target, "/") THEN SubSeq(target, 1, Len(target) - 1) ELSE target

C15_UpstreamUrl ==
    \A r \in Requests :
        \A i \in 1..Len(reqs[r].upstream) :
            LET url    == reqs[r].upstream[i].url
                path   == reqs[r].scope.path
                target == reqs[r].proxy_config.target
            IN  /\ url = TargetBase(target) \o path
                /\ EndsWith(url, path)
                /\ StartsWith(path, reqs[r].proxy_config.endpoint)
                /\ target \in {"http://backend", "http://backend/"} => url = "http://backend" \o path

\* a request has been forwarded to the target written with its slash
C15_Witness ==
    \E r \in Requests :
        /\ reqs[r].pc = "awaiting"
        /\ reqs[r].proxy_config.target = "http://backend/"
        /\ reqs[r].upstream[1].url = "http://backend/api/v1/graph/items"

(***************************************************************************)
(* C16  Outbound header frame: without change_origin the headers sent      *)
(* upstream are exactly the inbound header lines plus the tenant header;   *)
(* with change_origin the only further difference is that Host is the      *)
(* host[:port] of the target.  No other inbound header is added, removed   *)
(* or changed.  The code copies the inbound headers into a dict, which     *)
(* keeps one line of a name that came on several.                          *)
(***************************************************************************)
\* the host[:port] of each target of the forwarding runs
HostOfTarget ==
    [target \in ForwardTargets |->
        CASE target = "http://backend"                  -> "backend"
          [] target = "http://backend/"                 -> "backend"
          [] target = "http://broad:8080/"              -> "broad:8080"
          [] target = "https://svc.internal:8443/base/" -> "svc.internal:8443"]

\* the (name, value) lines of a dict of headers
LinesOf(headers) == {<<k, headers[k]>> : k \in DOMAIN headers}

C16_HeaderFrame ==
    \A r \in Requests :
        \A i \in 1..Len(reqs[r].upstream) :
            LET route   == reqs[r].proxy_config
                inbound == SetOf(reqs[r].scope.headers)
                tenant  == {<<"X-Tenant-ID", reqs[r].token_payload.tenant_id>>}
            IN  LinesOf(reqs[r].upstream[i].headers) =
                    IF route.change_origin
                    THEN {line \in inbound : line[1] # "host"}
                            \cup {<<"host", HostOfTarget[route.target]>>} \cup tenant
                    ELSE inbound \cup tenant

(***************************************************************************)
(* C17  What the upstream returns is relayed as received: the caller gets  *)
(* the upstream's status and body whatever the status, a redirect is not   *)
(* followed, and the relayed headers are the upstream's header lines       *)
(* without content-length, connection, transfer-encoding and               *)
(* content-encoding.  The code copies the upstream's headers into a dict,  *)
(* which joins the lines of a name that came on several into one.          *)
(***************************************************************************)
StrippedHeaders == {"content-length", "connection", "transfer-encoding", "content-encoding"}

C17_RelayedAsReceived ==
    \A r \in Requests :
        reqs[r].pc = "relayed" =>
            LET response == reqs[r].response
            IN  /\ Len(reqs[r].upstream) = 1
                /\ ~reqs[r].upstream[1].follow_redirects
                /\ Len(reqs[r].sent) = 2
                /\ reqs[r].sent[1].status = response.status_code
                /\ reqs[r].sent[2].body = response.content
                /\ LinesOf(reqs[r].sent[1].headers) =
                      {line \in SetOf(response.headers) : Lower(line[1]) \notin StrippedHeaders}

(***************************************************************************)
(* C18  The query and the body of a forwarded request reach the upstream   *)
(* as they came: the same (key, value) pairs, every value of a repeated    *)
(* key included, the same body, the same method.  The code hands the       *)
(* client dict(request.query_params), which keeps one value of each key.   *)
(***************************************************************************)
C18_QueryAndBodyForwarded ==
    \A r \in Requests :
        \A i \in 1..Len(reqs[r].upstream) :
            LET sent == reqs[r].upstream[i]
            IN  /\ sent.method = reqs[r].scope.method
                /\ sent.content = reqs[r].scope.body
                /\ LinesOf(sent.params) = SetOf(reqs[r].scope.query)
                /\ Cardinality(DOMAIN sent.params) = Len(reqs[r].scope.query)

(***************************************************************************)
(* C19  When the connection to the upstream is refused or cannot be made   *)
(* for an authenticated and authorized request, the gateway has made one   *)
(* upstream attempt, makes no other, and answers 502 with the body         *)
(* {"detail": "Bad Gateway..."}.                                           *)
(***************************************************************************)
C19_BadGatewayAfterOneAttempt ==
    \A r \in Requests :
        reqs[r].raised.type = "ConnectError" =>
            /\ ValidAndGranted(r)
            /\ Len(reqs[r].upstream) = 1
            /\ reqs[r].pc = "upstream_unreachable"
            /\ Len(reqs[r].sent) = 2
            /\ reqs[r].sent[1].type = "http.response.start"
            /\ reqs[r].sent[1].status = 502
            /\ reqs[r].sent[1].headers = [k \in {"content-type"} |-> "application/json"]
            /\ IsDetailJson(reqs[r].sent[2].body)
            /\ StartsWith(reqs[r].sent[2].body, "{\"detail\": \"Bad Gateway")

\* the upstream client has raised ConnectError and the request has been answered
C19_Witness ==
    \E r \in Requests :
        /\ reqs[r].raised.type = "ConnectError"
        /\ Visited(r, "awaiting")
        /\ reqs[r].sent # <<>>
        /\ reqs[r].sent[1].status = 502

(***************************************************************************)
(* C20  When the upstream call exceeds its timeout the request ends as     *)
(* with a refused connection, 502 Bad Gateway, not as an internal error,   *)
(* 500.  The code catches httpx.ConnectError only; a timeout is            *)
(* httpx.TimeoutException, which "except Exception" turns into 500.        *)
(***************************************************************************)
C20_TimeoutIsBadGateway ==
    \A r \in Requests :
        reqs[r].raised.type = "TimeoutException" =>
            /\ reqs[r].pc = "upstream_unreachable"
            /\ reqs[r].sent[1].status = 502

(***************************************************************************)
(* C21  Every failure raised after the authorization check has allowed the *)
(* request (while the body is read or the upstream is called), other than  *)
(* an upstream connection failure, is answered 500 with the body           *)
(* {"detail": "Internal Server Error"}: none of them, a ValueError         *)
(* subclass included, becomes a 401 of the gateway or returns the text of  *)
(* the exception.  The code's "except ValueError" comes first and answers  *)
(* 401 with str(e).                                                        *)
(***************************************************************************)
C21_LateFailureIsInternalError ==
    \A r \in Requests :
        ( /\ Visited(r, "authorized")
          /\ reqs[r].raised # NoException
          /\ reqs[r].raised.type # "ConnectError" ) =>
            /\ reqs[r].pc = "internal_error"
            /\ reqs[r].sent = SendErrorResponse(500, "Internal Server Error")

(***************************************************************************)
(* C22  Every configuration that AppConfig.from_dict accepts is            *)
(* consistent: each user's tenant_id is the id of a configured tenant and  *)
(* each of the user's roles is a key of the role table, whatever the       *)
(* input, one with an empty tenants list included; a configuration that    *)
(* is not consistent is rejected at load.  The code checks a user's tenant *)
(* only when the tenants list is not empty.                                *)
(***************************************************************************)
\* the configuration has been accepted at load
Loaded == proc.phase \in {"created", "running", "stopped"}

ReferencesHold(cfg) ==
    \A i \in 1..Len(cfg.users) :
        /\ cfg.users[i].tenant_id \in SetOf(cfg.tenants)
        /\ SetOf(cfg.users[i].roles) \subseteq DOMAIN cfg.roles

C22_AcceptedConfigIsConsistent == Loaded => ReferencesHold(config)

(***************************************************************************)
(* C23  Issue and validate round trip.  A token the login endpoint issued  *)
(* after a successful password check, presented while it has not expired,  *)
(* passes validate_token_and_get_payload exactly when the configuration it *)
(* is validated against still has the user with the tenant_id and the set  *)
(* of roles the token was issued from (so it passes against the            *)
(* configuration it was issued from, every time it is presented), and is   *)
(* rejected once the configured roles or tenant_id differ; when it passes, *)
(* the payload is that user's name, tenant_id and role set.                *)
(***************************************************************************)
\* the request presents the token the caller holds, unexpired
PresentsHeldToken(r) ==
    /\ proc.token # NoToken
    /\ reqs[r].validation.called
    /\ BearerToken(r) = proc.token.jwt

\* the configuration has the user as the token was issued from it
StillConfigured(user, cfg) ==
    LET looked == GetUser(user.name, cfg)
    IN  /\ looked.found
        /\ looked.user.tenant_id = user.tenant_id
        /\ SetOf(looked.user.roles) = SetOf(user.roles)

C23_IssueValidateRoundTrip ==
    \A r \in Requests :
        PresentsHeldToken(r) =>
            LET issued == proc.token.user
                result == reqs[r].validation.result
            IN  /\ result.ok <=> StillConfigured(issued, config)
                /\ result.ok =>
                      /\ result.payload.sub = issued.name
                      /\ result.payload.tenant_id = issued.tenant_id
                      /\ SetOf(result.payload.roles) = SetOf(issued.roles)

\* a token issued from bob's hashed password has passed validation against a
\* configuration loaded from the file it was issued from
C23_Witness ==
    \E r \in Requests :
        /\ PresentsHeldToken(r)
        /\ proc.token.user.name = "bob"
        /\ GetConfig(proc.file) = config
        /\ reqs[r].validation.result.ok
        /\ reqs[r].validation.result.payload.tenant_id = "t2"

(***************************************************************************)
(* C24  The authorization decision is a function of the identity's roles,  *)
(* the method, the route and the configuration: two requests with the same *)
(* roles, method and route get the same decision, whichever was decided    *)
(* first and whatever else is in flight; and making the decision changes   *)
(* nothing but the request it is made for - not the configuration, not the *)
(* process, not another request.                                           *)
(***************************************************************************)
SameDecisionInputs(r1, r2) ==
    /\ reqs[r1].token_payload.roles = reqs[r2].token_payload.roles
    /\ reqs[r1].scope.method = reqs[r2].scope.method
    /\ reqs[r1].proxy_config = reqs[r2].proxy_config

SameDecision ==
    \A r1, r2 \in Requests :
        (Decided(r1) /\ Decided(r2) /\ SameDecisionInputs(r1, r2)) =>
            (Visited(r1, "authorized") <=> Visited(r2, "authorized"))

\* a step that decides for request r leaves everything else as it was
DecisionStep ==
    \A r \in DOMAIN reqs :
        (reqs[r].pc = "authenticated" /\ reqs'[r].pc \in {"authorized", "denied"}) =>
            /\ config' = config
            /\ proc' = proc
            /\ \A o \in DOMAIN reqs \ {r} : reqs'[o] = reqs[o]
            /\ reqs'[r].token_payload = reqs[r].token_payload
            /\ reqs'[r].validation = reqs[r].validation

Stages == <<"called", "matched", "authenticated", "authorized", "body_read", "awaiting",
            "responded">>

\* the position of a state in the order of the pipeline; the terminal states
\* come last
Rank(pc) ==
    IF pc \in Terminal THEN Len(Stages) + 1
    ELSE CHOOSE i \in 1..Len(Stages) : Stages[i] = pc

StatusOf(pc) ==
    CASE pc = "rejected"             -> {401}
      [] pc = "denied"               -> {403}
      [] pc = "upstream_unreachable" -> {502}
      [] pc = "internal_error"       -> {500}
      [] OTHER                       -> {s.status_code : s \in UpstreamResponses}

OneResponse(sent) ==
    /\ Len(sent) = 2
    /\ sent[1].type = "http.response.start"
    /\ sent[2].type = "http.response.body"
    /\ ~sent[2].more_body

ForwardOnly(r) ==
    LET v == reqs[r].visited
    IN  /\ v[1] = "called"
        /\ reqs[r].pc = v[Len(v)]
        /\ \A i \in 1..(Len(v) - 1) :
              /\ v[i] \notin Terminal
              /\ Rank(v[i]) < Rank(v[i + 1])
              /\ v[i + 1] \notin Terminal => Rank(v[i + 1]) = Rank(v[i]) + 1
        /\ \A i \in 1..Len(v) : v[i] = "passthrough" => i = 2
        /\ \A i \in 1..Len(v) : v[i] = "relayed" => v[i - 1] = "responded"
        /\ \A i \in 1..Len(v) : v[i] = "denied" => v[i - 1] = "authenticated"

ProxyBranch(r) ==
    Visited(r, "matched") =>
        /\ reqs[r].app_calls = 0
        /\ IF reqs[r].pc \in Terminal
           THEN /\ OneResponse(reqs[r].sent)
                /\ reqs[r].sent[1].status \in StatusOf(reqs[r].pc)
           ELSE reqs[r].sent = <<>>

BoundUser(r) == GetUser(BearerToken(r).payload.sub.v, config).user

Validated(r) == reqs[r].validation.called /\ reqs[r].validation.result.ok

C26_IdentityFromConfiguration ==
    \A r \in Requests :
        Validated(r) =>
            LET user == BoundUser(r)
            IN  /\ reqs[r].validation.result.payload =
                      [sub |-> user.name, roles |-> user.roles, tenant_id |-> user.tenant_id]
                /\ reqs[r].token_payload = reqs[r].validation.result.payload
                /\ Decided(r) =>
                      (Visited(r, "authorized") <=>
                          IsAuthorizedForProxy(user.roles, reqs[r].scope.method,
                                               reqs[r].proxy_config, config))
                /\ \A i \in 1..Len(reqs[r].upstream) :
                      reqs[r].upstream[i].headers["X-Tenant-ID"] = user.tenant_id

\* a token listing alice's roles in another order than the configuration has
\* been accepted and the request forwarded
C26_Witness ==
    \E r \in Requests :
        /\ Validated(r)
        /\ BearerToken(r).payload.roles = JStrList(<<"user", "admin">>)
        /\ reqs[r].token_payload.roles = <<"admin", "user">>
        /\ reqs[r].upstream # <<>>

(***************************************************************************)
(* C27  The decision is the reference rule: a request is allowed iff one   *)
(* of the identity's roles has, in its configured list, a permission whose *)
(* resource matches the route's resource and whose actions contain "*" or  *)
(* one of the actions the method requires.  An identity with no roles is   *)
(* refused; a role the role table does not have contributes nothing.       *)
(* The code compares the permission's actions in lower case, so the rule   *)
(* holds with the actions lower-cased and fails with them as written.      *)
(***************************************************************************)
\* the permissions the roles of an identity have in the role table
PermissionsOf(roles, table) ==
    UNION { SetOf(table[role]) : role \in SetOf(roles) \cap DOMAIN table }

\* the reference rule, on the actions as the configuration spells them
ReferenceRule(r) ==
    \E permission \in PermissionsOf(reqs[r].token_payload.roles, config.roles) :
        /\ ResourceMatches(permission.resource, GetProxyResource(reqs[r].proxy_config))
        /\ \/ "*" \in SetOf(permission.actions)
           \/ SetOf(permission.actions) \cap SatisfyingActions(reqs[r].scope.method) # {}

\* the reference rule, on the actions in lower case
ReferenceRuleLowered(r) ==
    \E permission \in PermissionsOf(reqs[r].token_payload.roles, config.roles) :
        LET actions == {Lower(a) : a \in SetOf(permission.actions)}
        IN  /\ ResourceMatches(permission.resource, GetProxyResource(reqs[r].proxy_config))
            /\ ("*" \in actions \/ actions \cap SatisfyingActions(reqs[r].scope.method) # {})

C27_ReferenceRule ==
    \A r \in Requests : Decided(r) => (Visited(r, "authorized") <=> ReferenceRule(r))

C27_ReferenceRuleLowered ==
    \A r \in Requests : Decided(r) => (Visited(r, "authorized") <=> ReferenceRuleLowered(r))

\* alice has been allowed by the second permission of her second role, her
\* first role not being in the role table
C27_Witness ==
    \E r \in Requests :
        /\ Visited(r, "authorized")
        /\ reqs[r].token_payload.roles = <<"admin", "user">>
        /\ DOMAIN config.roles = {"user"}
        /\ Len(config.roles["user"]) = 2
        /\ ~ResourceMatches(config.roles["user"][1].resource, GetProxyResource(reqs[r].proxy_config))

(***************************************************************************)
(* C28  Over a process's life the gateway creates one outbound client,     *)
(* every forwarded request is sent with it, and once the process has       *)
(* stopped every client the gateway created has been closed exactly once;  *)
(* a client supplied from outside is the one used for forwarding and is    *)
(* never closed.  The code creates two clients, the middleware's own and   *)
(* the lifespan's shared one, and closes only the second.                  *)
(***************************************************************************)
\* the clients the gateway created itself
GatewayClients == {i \in 1..Len(proc.clients) : proc.clients[i].creator # "external"}

SuppliedClients == {i \in 1..Len(proc.clients) : proc.clients[i].creator = "external"}

\* the requests that were handed to an outbound client
Forwarded == {r \in Requests : reqs[r].upstream # <<>>}

C28_ClientLifecycle ==
    /\ Cardinality(GatewayClients) <= 1
    /\ \A r \in Forwarded : reqs[r].client \in GatewayClients \cup SuppliedClients
    /\ \A r \in Forwarded : SuppliedClients # {} => reqs[r].client \in SuppliedClients
    /\ \A i \in GatewayClients : proc.clients[i].closes <= 1
    /\ proc.phase = "stopped" => \A i \in GatewayClients : proc.clients[i].closes = 1
    /\ \A i \in SuppliedClients : proc.clients[i].closes = 0

(***************************************************************************)
(* C29  Every component that reads configuration while it handles a        *)
(* request reads the snapshot loaded at startup: the users, roles and      *)
(* tenants the login endpoint's get_config hands it are those of the       *)
(* snapshot the middleware holds.  get_config opens and parses the file    *)
(* again on every call, so after the file is rewritten the endpoint reads  *)
(* a configuration the middleware does not have.                           *)
(***************************************************************************)
\* the requests for which get_config has been called
ReadConfig == {r \in Requests : reqs[r].app_config # NoConfig}

\* two configurations with the same users, roles and tenants
SameSnapshot(a, b) ==
    /\ a.users = b.users
    /\ a.roles = b.roles
    /\ a.tenants = b.tenants

C29_SingleSnapshot ==
    \A r \in ReadConfig : SameSnapshot(reqs[r].app_config, config)

(***************************************************************************)
(* C30  Only scopes of type "http" enter the pipeline.  A scope of another *)
(* type is handed to the inner application as it came, once, with no route *)
(* looked up, no token validated, no decision made, nothing sent upstream  *)
(* and no response written by the gateway, also when its path starts with  *)
(* a configured endpoint.                                                  *)
(***************************************************************************)
\* the requests whose scope is not an HTTP one and that __call__ has handled
NonHttpHandled ==
    {r \in Requests : reqs[r].scope.type # "http" /\ reqs[r].pc \notin {"idle", "called"}}

\* the path of the request's scope starts with a configured endpoint
OnConfiguredEndpoint(r) ==
    \E i \in 1..Len(config.proxy) : StartsWith(reqs[r].scope.path, config.proxy[i].endpoint)

C30_OnlyHttpEntersPipeline ==
    \A r \in NonHttpHandled :
        /\ reqs[r].pc = "passthrough"
        /\ reqs[r].app_calls = 1
        /\ reqs[r].app_scope = reqs[r].scope
        /\ reqs[r].proxy_config = NoProxy
        /\ reqs[r].validation = NotValidated
        /\ reqs[r].token_payload = NoPayload
        /\ reqs[r].upstream = <<>>
        /\ reqs[r].sent = <<>>
        /\ \A i \in 1..Len(reqs[r].visited) :
              reqs[r].visited[i] \notin Terminal \ {"passthrough"}

\* a websocket scope with no credentials, on a path under a configured
\* endpoint, is with the inner application
C30_Witness ==
    \E r \in NonHttpHandled :
        /\ reqs[r].scope.type = "websocket"
        /\ OnConfiguredEndpoint(r)
        /\ Authorization(r) = "absent"
        /\ reqs[r].pc = "passthrough"

====
